---- MODULE Spec2Model ----
(***************************************************************************)
(* Model of the indexed heap queue of sfilipov/indexed-heapq.               *)
(*                                                                         *)
(* Two variants of IndexedHeapQueue live in the repository:                *)
(*   "named"   indexed_heapq/indexed_heapq.py      insert/update/remove/.. *)
(*   "mapping" src/indexed_heapq/indexed_heapq.py  q[k] = p, del q[k], ..  *)
(* Both keep a list pq of Comparator(key, priority) in binary-heap order    *)
(* and a dict pq_index from key to the slot of its entry.  Slots are        *)
(* 0-based as in the code; the TLA+ sequence holding pq is 1-based, so      *)
(* slot i of the code is element i + 1 of the sequence (At, Put).           *)
(***************************************************************************)
EXTENDS Integers, Sequences, FiniteSets, TLC

VARIABLES variant, pq, pq_index, naive, size, inserted_keys, old, last, pc,
          twin, trace, loop_index, key_order, threads

vars == <<variant, pq, pq_index, naive, size, inserted_keys, old, last, pc,
          twin, trace, loop_index, key_order, threads>>

\* ------------------------------------------------------------------ bounds
MaxKeys == 3
MaxPriority == 2

Keys == 1 .. MaxKeys
Priorities == 0 .. MaxPriority

\* ------------------------------------------------------ lists and dicts
\* list[i] with a 0-based slot i
At(list, i) == list[i + 1]

\* list[i] = e with a 0-based slot i
Put(list, i, e) == [list EXCEPT ![i + 1] = e]

\* list.pop(0): the list without its first element
ButLast_first(list) == SubSeq(list, 2, Len(list))

\* list.pop(): the list without its last element
ButLast(list) == SubSeq(list, 1, Len(list) - 1)

\* the empty dict {}
EmptyDict == [k \in {} |-> 0]

\* d[k] = v: adds the key when it is absent
DictSet(d, k, v) == [x \in (DOMAIN d) \cup {k} |-> IF x = k THEN v ELSE d[x]]

\* del d[k]
DictDel(d, k) == [x \in (DOMAIN d) \ {k} |-> d[x]]

\* ---------------------------------------------------------- Comparator
Comparator(key, priority) == [key |-> key, priority |-> priority]

\* Comparator.__lt__: entries compare by priority alone
Lt(a, b) == a.priority < b.priority

\* a queue object: the two fields the constructor creates
Queue(list, index) == [pq |-> list, pq_index |-> index]

\* the outcome of a public call: the queue afterwards, "ok" or the exception
\* raised, and the value returned (<<>> for None)
Result(q, outcome, ret) == [q |-> q, outcome |-> outcome, ret |-> ret]

\* ------------------------------------------------------ heap primitives
\* SwapSlots with the second index assignment forgotten
SwapSlots_one_index(q, i, j) ==
    LET list == Put(Put(q.pq, i, At(q.pq, j)), j, At(q.pq, i))
    IN  Queue(list, DictSet(q.pq_index, At(list, i).key, i))

\* pq[i], pq[j] = pq[j], pq[i]; pq_index[pq[i].key] = i; pq_index[pq[j].key] = j
SwapSlots(q, i, j) ==
    LET list == Put(Put(q.pq, i, At(q.pq, j)), j, At(q.pq, i))
        idx1 == DictSet(q.pq_index, At(list, i).key, i)
        idx2 == DictSet(idx1, At(list, j).key, j)
    IN  Queue(list, idx2)

\* _sift_up swapping the two entries without updating pq_index
RECURSIVE _sift_up_no_index(_, _)
_sift_up_no_index(q, index) ==
    IF index > 0
    THEN LET parent_index == (index - 1) \div 2
         IN  IF Lt(At(q.pq, index), At(q.pq, parent_index))
             THEN _sift_up_no_index(
                      Queue(Put(Put(q.pq, index, At(q.pq, parent_index)),
                                parent_index, At(q.pq, index)),
                            q.pq_index),
                      parent_index)
             ELSE q
    ELSE q

RECURSIVE _sift_up(_, _)
_sift_up(q, index) ==
    IF index > 0
    THEN LET parent_index == (index - 1) \div 2
         IN  IF Lt(At(q.pq, index), At(q.pq, parent_index))
             THEN _sift_up(SwapSlots(q, index, parent_index), parent_index)
             ELSE q
    ELSE q

\* _sink_down swapping with a child that is not greater, instead of smaller
RECURSIVE _sink_down_not_greater(_, _)
_sink_down_not_greater(q, index) ==
    LET left_idx == 2 * index + 1
        right_idx == 2 * index + 2
        s1 == IF left_idx < Len(q.pq) /\ ~Lt(At(q.pq, index), At(q.pq, left_idx))
              THEN left_idx ELSE index
        smallest == IF right_idx < Len(q.pq) /\ ~Lt(At(q.pq, s1), At(q.pq, right_idx))
                    THEN right_idx ELSE s1
    IN  IF smallest # index
        THEN _sink_down_not_greater(SwapSlots(q, index, smallest), smallest)
        ELSE q

\* _sink_down comparing the right child with pq[index], not with pq[smallest]
RECURSIVE _sink_down_right_vs_index(_, _)
_sink_down_right_vs_index(q, index) ==
    LET left_idx == 2 * index + 1
        right_idx == 2 * index + 2
        s1 == IF left_idx < Len(q.pq) /\ Lt(At(q.pq, left_idx), At(q.pq, index))
              THEN left_idx ELSE index
        smallest == IF right_idx < Len(q.pq) /\ Lt(At(q.pq, right_idx), At(q.pq, index))
                    THEN right_idx ELSE s1
    IN  IF smallest # index
        THEN _sink_down_right_vs_index(SwapSlots(q, index, smallest), smallest)
        ELSE q

RECURSIVE _sink_down(_, _)
_sink_down(q, index) ==
    LET left_idx == 2 * index + 1
        right_idx == 2 * index + 2
        s1 == IF left_idx < Len(q.pq) /\ Lt(At(q.pq, left_idx), At(q.pq, index))
              THEN left_idx ELSE index
        smallest == IF right_idx < Len(q.pq) /\ Lt(At(q.pq, right_idx), At(q.pq, s1))
                    THEN right_idx ELSE s1
    IN  IF smallest # index
        THEN _sink_down(SwapSlots(q, index, smallest), smallest)
        ELSE q

\* ------------------------------------------- heapq of the standard library
\* heapq._siftdown(heap, startpos, pos): move heap[pos] toward startpos
RECURSIVE heapq_siftdown_loop(_, _, _, _)
heapq_siftdown_loop(heap, startpos, pos, newitem) ==
    IF pos > startpos /\ Lt(newitem, At(heap, (pos - 1) \div 2))
    THEN heapq_siftdown_loop(Put(heap, pos, At(heap, (pos - 1) \div 2)),
                             startpos, (pos - 1) \div 2, newitem)
    ELSE Put(heap, pos, newitem)

heapq_siftdown(heap, startpos, pos) ==
    heapq_siftdown_loop(heap, startpos, pos, At(heap, pos))

\* heapq._siftup(heap, pos): bubble the smaller child up until a leaf is hit,
\* then sift the original item down (toward the root) into place
RECURSIVE heapq_siftup_loop(_, _, _, _)
heapq_siftup_loop(heap, startpos, pos, newitem) ==
    LET childpos == 2 * pos + 1
        rightpos == childpos + 1
        chosen == IF rightpos < Len(heap) /\ ~Lt(At(heap, childpos), At(heap, rightpos))
                  THEN rightpos ELSE childpos
    IN  IF childpos < Len(heap)
        THEN heapq_siftup_loop(Put(heap, pos, At(heap, chosen)), startpos, chosen, newitem)
        ELSE heapq_siftdown(Put(heap, pos, newitem), startpos, pos)

heapq_siftup(heap, pos) == heapq_siftup_loop(heap, pos, pos, At(heap, pos))

\* the bulk load with heapq.heapify left out
heapify_skipped(x) == x

\* heapq.heapify(x): for i in reversed(range(n // 2)): _siftup(x, i)
RECURSIVE heapify_from(_, _)
heapify_from(x, i) ==
    IF i < 0 THEN x ELSE heapify_from(heapq_siftup(x, i), i - 1)

heapify(x) == heapify_from(x, (Len(x) \div 2) - 1)

\* heapq.heappush(heap, item)
heappush(heap, item) == heapq_siftdown(Append(heap, item), 0, Len(heap))

\* heapq.heappop(heap): <<heap afterwards, item returned>>
heappop(heap) ==
    LET lastelt == heap[Len(heap)]
        rest == ButLast(heap)
    IN  IF Len(rest) > 0
        THEN <<heapq_siftup(Put(rest, 0, lastelt), 0), At(heap, 0)>>
        ELSE <<rest, lastelt>>

\* --------------------------------- IndexedHeapQueue, named-method variant
\* (indexed_heapq/indexed_heapq.py)

\* [Comparator(key, map[key]) for key in map.keys()]
RECURSIVE Appended(_, _, _)
Appended(list, map_keys, map) ==
    IF Len(map_keys) = 0
    THEN list
    ELSE Appended(Append(list, Comparator(Head(map_keys), map[Head(map_keys)])),
                  Tail(map_keys), map)

\* for i, item in enumerate(self.pq): index[item.key] = i   (from slot i on)
RECURSIVE Enumerated(_, _, _)
Enumerated(index, list, i) ==
    IF i >= Len(list)
    THEN index
    ELSE Enumerated(DictSet(index, At(list, i).key, i), list, i + 1)

\* IndexedHeapQueue(map): map_keys is map.keys() in iteration order
__init__(map_keys, map) ==
    IF Len(map_keys) = 0
    THEN Queue(<<>>, EmptyDict)
    ELSE LET list == heapify(Appended(<<>>, map_keys, map))
         IN  Queue(list, Enumerated(EmptyDict, list, 0))

__len__(q) == Len(q.pq)

__contains__(q, key) == key \in DOMAIN q.pq_index

\* pop deleting the moved entry's key from pq_index instead of the minimum's
pop_del_last(q) ==
    IF Len(q.pq) = 0
    THEN Result(q, "IndexError", <<>>)
    ELSE LET min_item == At(q.pq, 0)
             last_item == q.pq[Len(q.pq)]
             rest == ButLast(q.pq)
             q1 == IF Len(rest) > 0
                   THEN _sink_down(Queue(Put(rest, 0, last_item),
                                         DictSet(q.pq_index, last_item.key, 0)), 0)
                   ELSE Queue(rest, q.pq_index)
         IN  Result(Queue(q1.pq, DictDel(q1.pq_index, last_item.key)), "ok",
                    <<min_item.key, min_item.priority>>)

\* pop moving the last entry to the root without sinking it
pop_no_sink(q) ==
    IF Len(q.pq) = 0
    THEN Result(q, "IndexError", <<>>)
    ELSE LET min_item == At(q.pq, 0)
             last_item == q.pq[Len(q.pq)]
             rest == ButLast(q.pq)
             q1 == IF Len(rest) > 0
                   THEN Queue(Put(rest, 0, last_item),
                              DictSet(q.pq_index, last_item.key, 0))
                   ELSE Queue(rest, q.pq_index)
         IN  Result(Queue(q1.pq, DictDel(q1.pq_index, min_item.key)), "ok",
                    <<min_item.key, min_item.priority>>)

pop(q) ==
    IF Len(q.pq) = 0
    THEN Result(q, "IndexError", <<>>)
    ELSE LET min_item == At(q.pq, 0)
             last_item == q.pq[Len(q.pq)]
             rest == ButLast(q.pq)
             q1 == IF Len(rest) > 0
                   THEN _sink_down(Queue(Put(rest, 0, last_item),
                                         DictSet(q.pq_index, last_item.key, 0)), 0)
                   ELSE Queue(rest, q.pq_index)
         IN  Result(Queue(q1.pq, DictDel(q1.pq_index, min_item.key)), "ok",
                    <<min_item.key, min_item.priority>>)

\* peek answering None on an empty queue instead of raising
peek_empty_none(q) ==
    IF Len(q.pq) = 0
    THEN Result(q, "ok", <<>>)
    ELSE Result(q, "ok", <<At(q.pq, 0).key, At(q.pq, 0).priority>>)

\* peek returning the last slot instead of slot 0
peek_last(q) ==
    IF Len(q.pq) = 0
    THEN Result(q, "IndexError", <<>>)
    ELSE Result(q, "ok", <<q.pq[Len(q.pq)].key, q.pq[Len(q.pq)].priority>>)

peek(q) ==
    IF Len(q.pq) = 0
    THEN Result(q, "IndexError", <<>>)
    ELSE Result(q, "ok", <<At(q.pq, 0).key, At(q.pq, 0).priority>>)

\* get entering a key it does not find into pq_index before raising
get_defaulting(q, key) ==
    IF key \notin DOMAIN q.pq_index
    THEN Result(Queue(q.pq, DictSet(q.pq_index, key, -1)), "KeyError", <<>>)
    ELSE Result(q, "ok", <<At(q.pq, q.pq_index[key]).priority>>)

get(q, key) ==
    IF key \notin DOMAIN q.pq_index
    THEN Result(q, "KeyError", <<>>)
    ELSE Result(q, "ok", <<At(q.pq, q.pq_index[key]).priority>>)

\* insert appending the entry and leaving it at the last slot
insert_no_sift(q, key, priority) ==
    IF key \in DOMAIN q.pq_index
    THEN Result(q, "ValueError", <<>>)
    ELSE LET list == Append(q.pq, Comparator(key, priority))
             index == DictSet(q.pq_index, key, Len(list) - 1)
         IN  Result(Queue(list, index), "ok", <<>>)

\* insert overwriting the priority of a key that is present instead of raising
insert_overwrite(q, key, priority) ==
    IF key \in DOMAIN q.pq_index
    THEN LET index == q.pq_index[key]
             q1 == Queue(Put(q.pq, index, Comparator(key, priority)), q.pq_index)
         IN  Result(_sink_down(_sift_up(q1, index), index), "ok", <<>>)
    ELSE LET list == Append(q.pq, Comparator(key, priority))
             index == DictSet(q.pq_index, key, Len(list) - 1)
         IN  Result(_sift_up(Queue(list, index), Len(list) - 1), "ok", <<>>)

insert(q, key, priority) ==
    IF key \in DOMAIN q.pq_index
    THEN Result(q, "ValueError", <<>>)
    ELSE LET list == Append(q.pq, Comparator(key, priority))
             index == DictSet(q.pq_index, key, Len(list) - 1)
         IN  Result(_sift_up(Queue(list, index), Len(list) - 1), "ok", <<>>)

\* remove deleting the moved entry's key from pq_index instead of the given key
remove_del_last(q, key) ==
    IF key \notin DOMAIN q.pq_index
    THEN Result(q, "KeyError", <<>>)
    ELSE LET index == q.pq_index[key]
             last_item == q.pq[Len(q.pq)]
             rest == ButLast(q.pq)
             q1 == IF index < Len(rest)
                   THEN _sink_down(
                            _sift_up(Queue(Put(rest, index, last_item),
                                           DictSet(q.pq_index, last_item.key, index)),
                                     index),
                            index)
                   ELSE Queue(rest, q.pq_index)
         IN  Result(Queue(q1.pq, DictDel(q1.pq_index, last_item.key)), "ok", <<>>)

\* remove restoring the heap upward only after the move
remove_sift_only(q, key) ==
    IF key \notin DOMAIN q.pq_index
    THEN Result(q, "KeyError", <<>>)
    ELSE LET index == q.pq_index[key]
             last_item == q.pq[Len(q.pq)]
             rest == ButLast(q.pq)
             q1 == IF index < Len(rest)
                   THEN _sift_up(Queue(Put(rest, index, last_item),
                                       DictSet(q.pq_index, last_item.key, index)),
                                 index)
                   ELSE Queue(rest, q.pq_index)
         IN  Result(Queue(q1.pq, DictDel(q1.pq_index, key)), "ok", <<>>)

\* remove with the final del self.pq_index[key] forgotten
remove_no_del(q, key) ==
    IF key \notin DOMAIN q.pq_index
    THEN Result(q, "KeyError", <<>>)
    ELSE LET index == q.pq_index[key]
             last_item == q.pq[Len(q.pq)]
             rest == ButLast(q.pq)
             q1 == IF index < Len(rest)
                   THEN _sink_down(
                            _sift_up(Queue(Put(rest, index, last_item),
                                           DictSet(q.pq_index, last_item.key, index)),
                                     index),
                            index)
                   ELSE Queue(rest, q.pq_index)
         IN  Result(q1, "ok", <<>>)

remove(q, key) ==
    IF key \notin DOMAIN q.pq_index
    THEN Result(q, "KeyError", <<>>)
    ELSE LET index == q.pq_index[key]
             last_item == q.pq[Len(q.pq)]
             rest == ButLast(q.pq)
             q1 == IF index < Len(rest)
                   THEN _sink_down(
                            _sift_up(Queue(Put(rest, index, last_item),
                                           DictSet(q.pq_index, last_item.key, index)),
                                     index),
                            index)
                   ELSE Queue(rest, q.pq_index)
         IN  Result(Queue(q1.pq, DictDel(q1.pq_index, key)), "ok", <<>>)

\* update that appends the key when it is absent instead of refusing
update_or_insert(q, key, priority) ==
    IF key \notin DOMAIN q.pq_index
    THEN LET index == Len(q.pq)
         IN  Result(_sift_up(Queue(Append(q.pq, Comparator(key, priority)),
                                   DictSet(q.pq_index, key, index)),
                             index),
                    "ok", <<>>)
    ELSE LET index == q.pq_index[key]
             old_priority == At(q.pq, index).priority
             q1 == Queue(Put(q.pq, index, Comparator(key, priority)), q.pq_index)
         IN  Result(IF priority < old_priority
                    THEN _sift_up(q1, index)
                    ELSE _sink_down(q1, index),
                    "ok", <<>>)

\* update restoring the heap upward only, whatever the new priority
update_no_sink(q, key, priority) ==
    IF key \notin DOMAIN q.pq_index
    THEN Result(q, "KeyError", <<>>)
    ELSE LET index == q.pq_index[key]
             item == At(q.pq, index)
             q1 == Queue(Put(q.pq, index, Comparator(item.key, priority)), q.pq_index)
         IN  Result(_sift_up(q1, index), "ok", <<>>)

\* update storing the new priority only when it is smaller than the old one
update_decrease_only(q, key, priority) ==
    IF key \notin DOMAIN q.pq_index
    THEN Result(q, "KeyError", <<>>)
    ELSE LET index == q.pq_index[key]
             item == At(q.pq, index)
             old_priority == item.priority
             q1 == Queue(Put(q.pq, index, Comparator(item.key, priority)), q.pq_index)
         IN  Result(IF priority < old_priority THEN _sift_up(q1, index) ELSE q,
                    "ok", <<>>)

update(q, key, priority) ==
    IF key \notin DOMAIN q.pq_index
    THEN Result(q, "KeyError", <<>>)
    ELSE LET index == q.pq_index[key]
             item == At(q.pq, index)
             old_priority == item.priority
             q1 == Queue(Put(q.pq, index, Comparator(item.key, priority)), q.pq_index)
         IN  Result(IF priority < old_priority
                    THEN _sift_up(q1, index)
                    ELSE _sink_down(q1, index),
                    "ok", <<>>)

\* upsert leaving a key that is already present as it is
upsert_setdefault(q, key, priority) ==
    IF key \in DOMAIN q.pq_index
    THEN Result(q, "ok", <<>>)
    ELSE insert(q, key, priority)

upsert(q, key, priority) ==
    IF key \in DOMAIN q.pq_index
    THEN update(q, key, priority)
    ELSE insert(q, key, priority)

\* ------------------------------- IndexedHeapQueue, mapping-protocol variant
\* (src/indexed_heapq/indexed_heapq.py)

\* for key in map.keys(): self.pq_index[key] = -1
RECURSIVE Placeheld(_, _)
Placeheld(index, map_keys) ==
    IF Len(map_keys) = 0
    THEN index
    ELSE Placeheld(DictSet(index, Head(map_keys), -1), Tail(map_keys))

Mapping__init__(map_keys, map) ==
    IF Len(map_keys) = 0
    THEN Queue(<<>>, EmptyDict)
    ELSE LET list == heapify(Appended(<<>>, map_keys, map))
         IN  Queue(list, Enumerated(Placeheld(EmptyDict, map_keys), list, 0))

Mapping__len__(q) == Cardinality(DOMAIN q.pq_index)

Mapping__contains__(q, key) == key \in DOMAIN q.pq_index

Mapping_peek(q) ==
    IF Len(q.pq) = 0
    THEN Result(q, "KeyError", <<>>)
    ELSE Result(q, "ok", <<At(q.pq, 0).key, At(q.pq, 0).priority>>)

__getitem__(q, key) ==
    IF key \notin DOMAIN q.pq_index
    THEN Result(q, "KeyError", <<>>)
    ELSE Result(q, "ok", <<At(q.pq, q.pq_index[key]).priority>>)

__setitem__(q, key, priority) ==
    IF key \notin DOMAIN q.pq_index
    THEN LET list == Append(q.pq, Comparator(key, priority))
             index == DictSet(q.pq_index, key, Len(list) - 1)
         IN  Result(_sift_up(Queue(list, index), Len(list) - 1), "ok", <<>>)
    ELSE LET index == q.pq_index[key]
             item == At(q.pq, index)
             old_priority == item.priority
             q1 == Queue(Put(q.pq, index, Comparator(item.key, priority)), q.pq_index)
         IN  Result(IF priority < old_priority
                    THEN _sift_up(q1, index)
                    ELSE _sink_down(q1, index),
                    "ok", <<>>)

__delitem__(q, key) ==
    IF key \notin DOMAIN q.pq_index
    THEN Result(q, "KeyError", <<>>)
    ELSE LET index == q.pq_index[key]
             last_item == q.pq[Len(q.pq)]
             rest == ButLast(q.pq)
             q1 == IF index < Len(rest)
                   THEN _sink_down(
                            _sift_up(Queue(Put(rest, index, last_item),
                                           DictSet(q.pq_index, last_item.key, index)),
                                     index),
                            index)
                   ELSE Queue(rest, q.pq_index)
         IN  Result(Queue(q1.pq, DictDel(q1.pq_index, key)), "ok", <<>>)

\* pop of the mapping variant with the _sink_down after the move forgotten
Mapping_pop_no_sink(q) ==
    IF Len(q.pq) = 0
    THEN Result(q, "KeyError", <<>>)
    ELSE LET min_item == At(q.pq, 0)
             last_item == q.pq[Len(q.pq)]
             rest == ButLast(q.pq)
             q1 == IF Len(rest) > 0
                   THEN Queue(Put(rest, 0, last_item),
                              DictSet(q.pq_index, last_item.key, 0))
                   ELSE Queue(rest, q.pq_index)
         IN  Result(Queue(q1.pq, DictDel(q1.pq_index, min_item.key)), "ok",
                    <<min_item.key, min_item.priority>>)

Mapping_pop(q) ==
    IF Len(q.pq) = 0
    THEN Result(q, "KeyError", <<>>)
    ELSE LET min_item == At(q.pq, 0)
             last_item == q.pq[Len(q.pq)]
             rest == ButLast(q.pq)
             q1 == IF Len(rest) > 0
                   THEN _sink_down(Queue(Put(rest, 0, last_item),
                                         DictSet(q.pq_index, last_item.key, 0)), 0)
                   ELSE Queue(rest, q.pq_index)
         IN  Result(Queue(q1.pq, DictDel(q1.pq_index, min_item.key)), "ok",
                    <<min_item.key, min_item.priority>>)

\* ------------------------------------- the naive reference (tests/naive.py)
\* [i for i, item in enumerate(self.pq) if item.key == key]
Match(list, key) == {i \in 0 .. Len(list) - 1 : At(list, i).key = key}

\* match[0]: the first matching slot
First(match) == CHOOSE i \in match : \A j \in match : i <= j

\* list.pop(i)
Without(list, i) == SubSeq(list, 1, i) \o SubSeq(list, i + 2, Len(list))

Naive__contains__(list, key) == Match(list, key) # {}

Naive_insert(list, key, priority) ==
    IF Match(list, key) # {}
    THEN Result(list, "ValueError", <<>>)
    ELSE Result(heappush(list, Comparator(key, priority)), "ok", <<>>)

Naive_update(list, key, priority) ==
    IF Match(list, key) = {}
    THEN Result(list, "KeyError", <<>>)
    ELSE Result(heapify(Put(list, First(Match(list, key)), Comparator(key, priority))),
                "ok", <<>>)

Naive_get(list, key) ==
    IF Match(list, key) = {}
    THEN Result(list, "KeyError", <<>>)
    ELSE Result(list, "ok", <<At(list, First(Match(list, key))).priority>>)

\* self.pq[0] of an empty list raises IndexError
Naive_peek(list) ==
    IF Len(list) = 0
    THEN Result(list, "IndexError", <<>>)
    ELSE Result(list, "ok", <<At(list, 0).key, At(list, 0).priority>>)

\* heapq.heappop of an empty list raises IndexError
Naive_pop(list) ==
    IF Len(list) = 0
    THEN Result(list, "IndexError", <<>>)
    ELSE Result(heappop(list)[1], "ok",
                <<heappop(list)[2].key, heappop(list)[2].priority>>)

Naive_remove(list, key) ==
    IF Match(list, key) = {}
    THEN Result(list, "KeyError", <<>>)
    ELSE Result(heapify(Without(list, First(Match(list, key)))), "ok", <<>>)

\* for k, v in d.items(): naive.insert(k, v)
RECURSIVE Naive_loaded(_, _, _)
Naive_loaded(list, map_keys, map) ==
    IF Len(map_keys) = 0
    THEN list
    ELSE Naive_loaded(Naive_insert(list, Head(map_keys), map[Head(map_keys)]).q,
                      Tail(map_keys), map)

\* ------------------------------------------------------ the state machine
\* The queue under test (variant, pq, pq_index), the reference the tests run
\* beside it (naive) and the tests' own bookkeeping (size, inserted_keys).
\* A rule of the tests' state machine makes one public call: old is the queue
\* as the call found it and last the call with its outcome and return value.
\* After every rule the tests look at the result (pc = "invariants") and go
\* on to the next rule (pc = "rule").
\* twin is a queue of the mapping variant given the same calls as a queue of
\* the named variant (SpecPair) and trace the calls of a scripted run
\* (SpecScenario); loop_index is the local variable index of a running _sift_up or
\* _sink_down, whose iterations trace then keeps (SpecSteps), and key_order
\* the iteration order of the dict pq_index (SpecOrder); threads holds, for
\* each thread calling into one shared queue, its call, the statement it is
\* at and its local variables (SpecThreads).  Spec uses none of the five.

Self == Queue(pq, pq_index)

Call(op, args, outcome, ret) ==
    [op |-> op, args |-> args, outcome |-> outcome, ret |-> ret]

NoCall == Call("none", <<>>, "ok", <<>>)

\* no thread besides the caller
NoThreads == <<>>

\* no second queue runs beside the queue under test
NoTwin == Result(Queue(<<>>, EmptyDict), "ok", <<>>)

\* map.keys() of a dict: its keys, each once, in some iteration order
KeyOrders == {ks \in UNION {[1 .. n -> Keys] : n \in 0 .. MaxKeys} :
                 \A i, j \in 1 .. Len(ks) : i # j => ks[i] # ks[j]}

KeySet(ks) == {ks[i] : i \in 1 .. Len(ks)}

Init ==
    \E ks \in KeyOrders : \E map \in [KeySet(ks) -> Priorities] :
    \E v \in {"named", "mapping"} :
        LET q == IF v = "named" THEN __init__(ks, map) ELSE Mapping__init__(ks, map)
        IN  /\ variant = v
            /\ pq = q.pq
            /\ pq_index = q.pq_index
            /\ naive = Naive_loaded(<<>>, ks, map)
            /\ size = Len(ks)
            /\ inserted_keys = KeySet(ks)
            /\ old = Queue(<<>>, EmptyDict)
            /\ last = Call("__init__", <<ks, map>>, "ok", <<>>)
            /\ pc = "invariants"
            /\ twin = NoTwin
            /\ trace = <<>>
            /\ loop_index = 0
            /\ key_order = <<>>
            /\ threads = NoThreads

\* a call that mutates: r is the queue's result, n the reference afterwards
Mutate(op, args, r, n, sz, ins) ==
    /\ pc = "rule"
    /\ pc' = "invariants"
    /\ old' = Self
    /\ pq' = r.q.pq
    /\ pq_index' = r.q.pq_index
    /\ last' = Call(op, args, r.outcome, r.ret)
    /\ naive' = IF r.outcome = "ok" THEN n ELSE naive
    /\ size' = IF r.outcome = "ok" THEN sz ELSE size
    /\ inserted_keys' = IF r.outcome = "ok" THEN ins ELSE inserted_keys
    /\ UNCHANGED <<variant, twin, trace, loop_index, key_order, threads>>

\* a call that only reads
Read(op, args, r) ==
    /\ pc = "rule"
    /\ pc' = "invariants"
    /\ old' = Self
    /\ pq' = r.q.pq
    /\ pq_index' = r.q.pq_index
    /\ last' = Call(op, args, r.outcome, r.ret)
    /\ UNCHANGED <<variant, naive, size, inserted_keys, twin, trace, loop_index, key_order, threads>>

\* the tests' invariants have looked at the result; the next rule may run
Invariants ==
    /\ pc = "invariants"
    /\ pc' = "rule"
    /\ old' = Self
    /\ last' = NoCall
    /\ UNCHANGED <<variant, pq, pq_index, naive, size, inserted_keys, twin, trace,
                   loop_index, key_order, threads>>

Insert(k, p) ==
    /\ variant = "named"
    /\ Mutate("insert", <<k, p>>, insert(Self, k, p),
              Naive_insert(naive, k, p).q, size + 1, inserted_keys \cup {k})

Update(k, p) ==
    /\ variant = "named"
    /\ Mutate("update", <<k, p>>, update(Self, k, p),
              Naive_update(naive, k, p).q, size, inserted_keys)

Upsert(k, p) ==
    /\ variant = "named"
    /\ Mutate("upsert", <<k, p>>, upsert(Self, k, p),
              IF k \in inserted_keys
              THEN Naive_update(naive, k, p).q
              ELSE Naive_insert(naive, k, p).q,
              IF k \in inserted_keys THEN size ELSE size + 1,
              inserted_keys \cup {k})

Remove(k) ==
    /\ variant = "named"
    /\ Mutate("remove", <<k>>, remove(Self, k),
              Naive_remove(naive, k).q, size - 1, inserted_keys \ {k})

Pop ==
    /\ variant = "named"
    /\ LET r == pop(Self)
       IN  Mutate("pop", <<>>, r,
                  IF r.outcome = "ok" THEN Naive_remove(naive, r.ret[1]).q ELSE naive,
                  size - 1,
                  IF r.outcome = "ok" THEN inserted_keys \ {r.ret[1]} ELSE inserted_keys)

Peek ==
    /\ variant = "named"
    /\ Read("peek", <<>>, peek(Self))

Get(k) ==
    /\ variant = "named"
    /\ Read("get", <<k>>, get(Self, k))

Contains(k) ==
    /\ variant = "named"
    /\ Read("contains", <<k>>, Result(Self, "ok", <<__contains__(Self, k)>>))

Length ==
    /\ variant = "named"
    /\ Read("len", <<>>, Result(Self, "ok", <<__len__(Self)>>))

SetItem(k, p) ==
    /\ variant = "mapping"
    /\ Mutate("setitem", <<k, p>>, __setitem__(Self, k, p),
              IF k \in inserted_keys
              THEN Naive_update(naive, k, p).q
              ELSE Naive_insert(naive, k, p).q,
              IF k \in inserted_keys THEN size ELSE size + 1,
              inserted_keys \cup {k})

DelItem(k) ==
    /\ variant = "mapping"
    /\ Mutate("delitem", <<k>>, __delitem__(Self, k),
              Naive_remove(naive, k).q, size - 1, inserted_keys \ {k})

GetItem(k) ==
    /\ variant = "mapping"
    /\ Read("getitem", <<k>>, __getitem__(Self, k))

MappingPop ==
    /\ variant = "mapping"
    /\ LET r == Mapping_pop(Self)
       IN  Mutate("pop", <<>>, r,
                  IF r.outcome = "ok" THEN Naive_remove(naive, r.ret[1]).q ELSE naive,
                  size - 1,
                  IF r.outcome = "ok" THEN inserted_keys \ {r.ret[1]} ELSE inserted_keys)

MappingPeek ==
    /\ variant = "mapping"
    /\ Read("peek", <<>>, Mapping_peek(Self))

MappingContains(k) ==
    /\ variant = "mapping"
    /\ Read("contains", <<k>>, Result(Self, "ok", <<Mapping__contains__(Self, k)>>))

MappingLength ==
    /\ variant = "mapping"
    /\ Read("len", <<>>, Result(Self, "ok", <<Mapping__len__(Self)>>))

\* iterating the queue; the keys are returned as a set, their order is not
\* part of this state
MappingIter ==
    /\ variant = "mapping"
    /\ Read("iter", <<>>, Result(Self, "ok", <<DOMAIN Self.pq_index>>))

Next ==
    \/ Invariants
    \/ \E k \in Keys, p \in Priorities : Insert(k, p)
    \/ \E k \in Keys, p \in Priorities : Update(k, p)
    \/ \E k \in Keys, p \in Priorities : Upsert(k, p)
    \/ \E k \in Keys : Remove(k)
    \/ Pop
    \/ Peek
    \/ \E k \in Keys : Get(k)
    \/ \E k \in Keys : Contains(k)
    \/ Length
    \/ \E k \in Keys, p \in Priorities : SetItem(k, p)
    \/ \E k \in Keys : DelItem(k)
    \/ \E k \in Keys : GetItem(k)
    \/ MappingPop
    \/ MappingPeek
    \/ \E k \in Keys : MappingContains(k)
    \/ MappingLength
    \/ MappingIter

Spec == Init /\ [][Next]_vars

\* --------------------------------------------- the calls, by variant
DoLen(q) == IF variant = "named" THEN __len__(q) ELSE Mapping__len__(q)

DoContains(q, key) ==
    IF variant = "named" THEN __contains__(q, key) ELSE Mapping__contains__(q, key)

DoGet(q, key) == IF variant = "named" THEN get(q, key) ELSE __getitem__(q, key)

DoPeek(q) == IF variant = "named" THEN peek(q) ELSE Mapping_peek(q)

DoPop(q) == IF variant = "named" THEN pop(q) ELSE Mapping_pop(q)

\* the call made last returned normally
Returned(ops) == pc = "invariants" /\ last.op \in ops /\ last.outcome = "ok"

\* ------------------------------------------------------------------ claims

\* C1: binary min-heap invariant.  In every state reached by bulk construction
\* followed by any sequence of public calls, failing ones included, every slot
\* i holds a priority <= the priority of each of its existing children 2i+1
\* and 2i+2.
C1_HeapInvariant ==
    \A i \in 0 .. Len(pq) - 1 : \A c \in {2 * i + 1, 2 * i + 2} :
        c < Len(pq) => At(pq, i).priority <= At(pq, c).priority

\* an update raised the root's priority and it sank to the right child, the
\* smaller of two children both smaller than it
C1_Witness ==
    /\ Returned({"update", "setitem"})
    /\ Len(pq) = 3
    /\ last.args[1] \in DOMAIN old.pq_index
    /\ old.pq_index[last.args[1]] = 0
    /\ pq_index[last.args[1]] = 2
    /\ At(pq, 1).priority < last.args[2]

\* C2: position-index invariant.  After bulk construction and after every
\* public call pq_index is a bijection between the live keys and the slots
\* 0 .. len(pq) - 1: pq[pq_index[k]].key = k for every key of pq_index,
\* pq_index[pq[i].key] = i for every slot, no key is in two slots and no key
\* keeps the placeholder -1 of the bulk load.
C2_IndexInvariant ==
    /\ DOMAIN pq_index = {At(pq, i).key : i \in 0 .. Len(pq) - 1}
    /\ Cardinality(DOMAIN pq_index) = Len(pq)
    /\ \A k \in DOMAIN pq_index :
          /\ pq_index[k] \in 0 .. Len(pq) - 1
          /\ At(pq, pq_index[k]).key = k
    /\ \A i \in 0 .. Len(pq) - 1 :
          /\ At(pq, i).key \in DOMAIN pq_index
          /\ pq_index[At(pq, i).key] = i
    /\ \A i, j \in 0 .. Len(pq) - 1 : At(pq, i).key = At(pq, j).key => i = j

\* the mapping variant was bulk-loaded with three keys and heapify moved the
\* first key of the mapping away from slot 0
C2_Witness ==
    /\ variant = "mapping"
    /\ pc = "invariants"
    /\ last.op = "__init__"
    /\ Len(pq) = 3
    /\ At(pq, 0).key # last.args[1][1]

\* C3: size consistency.  In every reachable state len(queue), the number of
\* keys of pq_index and the number of entries of pq are equal, and equal the
\* number of keys inserted or bulk-loaded and not yet popped or removed.
C3_SizeConsistency ==
    /\ DoLen(Self) = size
    /\ Cardinality(DOMAIN pq_index) = size
    /\ Len(pq) = size
    /\ Cardinality(inserted_keys) = size

\* a key was removed from a queue of three
C3_Witness ==
    /\ Returned({"remove", "delitem"})
    /\ Len(old.pq) = 3
    /\ size = 2

\* C4: agreement with the naive reference.  After every step of the same
\* sequence of calls the queue and the reference report the same size, the
\* same membership for every key, the same get(k) for every live key and the
\* same priority from peek and from pop.  (As in the tests, the reference
\* mirrors a pop by removing the key the queue returned.  The comparison is
\* made between two rules: every state a call leaves is carried there
\* unchanged by Invariants.)
C4_AgreesWithNaive ==
    pc = "rule" =>
        /\ DoLen(Self) = Len(naive)
        /\ \A k \in Keys : DoContains(Self, k) = Naive__contains__(naive, k)
        /\ \A k \in inserted_keys :
              /\ DoGet(Self, k).outcome = "ok"
              /\ DoGet(Self, k).ret = Naive_get(naive, k).ret
        /\ Len(naive) > 0 =>
              /\ DoPeek(Self).outcome = "ok"
              /\ DoPeek(Self).ret[2] = Naive_peek(naive).ret[2]
              /\ DoPop(Self).outcome = "ok"
              /\ DoPop(Self).ret[2] = Naive_pop(naive).ret[2]

\* a pop left two entries of equal priority, and the reference, whose list is
\* ordered differently, holds the other key first
C4_Witness ==
    /\ Returned({"pop"})
    /\ Len(pq) = 2
    /\ At(naive, 0).key # At(pq, 0).key
    /\ At(pq, 0).priority = At(pq, 1).priority
    /\ last.ret[2] < At(pq, 0).priority

\* C5: peek on a non-empty queue returns a pair (k, p) with k a live key,
\* p = get(k) and p <= the priority of every live key; when one key alone has
\* the smallest priority, peek returns that key.
C5_PeekMinimum ==
    (pc = "invariants" /\ last.op = "peek" /\ Len(old.pq) > 0) =>
        /\ last.outcome = "ok"
        /\ Len(last.ret) = 2
        /\ last.ret[1] \in inserted_keys
        /\ DoGet(Self, last.ret[1]).ret = <<last.ret[2]>>
        /\ \A j \in inserted_keys : last.ret[2] <= DoGet(Self, j).ret[1]
        /\ \A j \in inserted_keys :
              (\A i \in inserted_keys \ {j} :
                  DoGet(Self, j).ret[1] < DoGet(Self, i).ret[1])
              => last.ret[1] = j

\* peek returned on a queue of three whose root alone holds the minimum
C5_Witness ==
    /\ Returned({"peek"})
    /\ Len(pq) = 3
    /\ last.ret[2] < At(pq, 1).priority
    /\ last.ret[2] < At(pq, 2).priority

\* C6: pop on a non-empty queue returns the pair peek would have returned in
\* the same state; afterwards that key is not contained, the size is smaller
\* by exactly 1, and every other live key is present with its priority
\* unchanged.
C6_PopReturnsPeek ==
    (pc = "invariants" /\ last.op = "pop" /\ Len(old.pq) > 0) =>
        /\ last.outcome = "ok"
        /\ DoPeek(old).outcome = "ok"
        /\ last.ret = DoPeek(old).ret
        /\ ~DoContains(Self, last.ret[1])
        /\ DoLen(Self) = DoLen(old) - 1
        /\ inserted_keys = (DOMAIN old.pq_index) \ {last.ret[1]}
        /\ \A j \in inserted_keys :
              /\ DoContains(Self, j)
              /\ DoGet(Self, j).outcome = "ok"
              /\ DoGet(Self, j).ret = DoGet(old, j).ret

\* pop of a queue of three: the last entry went to the root and sank, so the
\* old left child is the new root
C6_Witness ==
    /\ Returned({"pop"})
    /\ Len(old.pq) = 3
    /\ At(pq, 0).key = At(old.pq, 1).key

\* popping until pop raises: the pairs returned, in order
RECURSIVE Drained(_)
Drained(q) ==
    IF DoPop(q).outcome # "ok"
    THEN <<>>
    ELSE <<DoPop(q).ret>> \o Drained(DoPop(q).q)

\* popping until pop raises: the queue left behind
RECURSIVE AfterDrain(_)
AfterDrain(q) ==
    IF DoPop(q).outcome # "ok" THEN q ELSE AfterDrain(DoPop(q).q)

\* C7: pop-order law.  From any reachable state, popping until the queue is
\* empty takes exactly size() pops, yields priorities in non-decreasing order,
\* returns each live key exactly once with its current priority, and leaves
\* the queue empty.
C7_PopOrder ==
    pc = "rule" =>
        LET d == Drained(Self)
        IN  /\ Len(d) = DoLen(Self)
            /\ \A i \in 1 .. Len(d) - 1 : d[i][2] <= d[i + 1][2]
            /\ \A i, j \in 1 .. Len(d) : d[i][1] = d[j][1] => i = j
            /\ {d[i] : i \in 1 .. Len(d)}
                   = {<<k, DoGet(Self, k).ret[1]>> : k \in inserted_keys}
            /\ AfterDrain(Self) = Queue(<<>>, EmptyDict)

\* a queue of three distinct priorities whose right child is smaller than its
\* left child: the drain returns the right child's key second
C7_Witness ==
    /\ pc = "rule"
    /\ Len(pq) = 3
    /\ At(pq, 0).priority < At(pq, 2).priority
    /\ At(pq, 2).priority < At(pq, 1).priority
    /\ Len(Drained(Self)) = 3
    /\ Drained(Self)[2][1] = At(pq, 2).key
    /\ Drained(Self)[3][1] = At(pq, 1).key

\* C8: insert(k, p) of an absent key succeeds; afterwards k is contained,
\* get(k) = p, the size is larger by exactly 1, and every key live before is
\* present with its priority unchanged.
C8_InsertAdds ==
    (pc = "invariants" /\ last.op \in {"insert", "setitem"}
        /\ last.args[1] \notin DOMAIN old.pq_index) =>
        /\ last.outcome = "ok"
        /\ DoContains(Self, last.args[1])
        /\ DoGet(Self, last.args[1]).outcome = "ok"
        /\ DoGet(Self, last.args[1]).ret = <<last.args[2]>>
        /\ DoLen(Self) = DoLen(old) + 1
        /\ \A j \in DOMAIN old.pq_index :
              /\ DoContains(Self, j)
              /\ DoGet(Self, j).outcome = "ok"
              /\ DoGet(Self, j).ret = DoGet(old, j).ret

\* an insert into a queue of two sifted the new entry up to the root
C8_Witness ==
    /\ Returned({"insert"})
    /\ Len(old.pq) = 2
    /\ last.args[1] \notin DOMAIN old.pq_index
    /\ pq_index[last.args[1]] = 0

\* C9: insert(k, p) of a key already present raises ValueError and leaves
\* the sequence and the position index exactly as before; get(k) still
\* returns the original priority.
C9_DuplicateInsert ==
    (pc = "invariants" /\ last.op = "insert"
        /\ last.args[1] \in DOMAIN old.pq_index) =>
        /\ last.outcome = "ValueError"
        /\ pq = old.pq
        /\ pq_index = old.pq_index
        /\ get(Self, last.args[1]).outcome = "ok"
        /\ get(Self, last.args[1]).ret = get(old, last.args[1]).ret

\* insert of a present key with a smaller priority than the one it has was
\* refused on a queue of three
C9_Witness ==
    /\ pc = "invariants"
    /\ last.op = "insert"
    /\ last.outcome = "ValueError"
    /\ Len(pq) = 3
    /\ last.args[2] < get(Self, last.args[1]).ret[1]

\* C10: update(k, p) of a present key succeeds for any p; afterwards
\* get(k) = p, the set of live keys and the size are unchanged, and every
\* other key's priority is unchanged.
C10_UpdateSets ==
    (pc = "invariants" /\ last.op \in {"update", "setitem"}
        /\ last.args[1] \in DOMAIN old.pq_index) =>
        /\ last.outcome = "ok"
        /\ DoGet(Self, last.args[1]).outcome = "ok"
        /\ DoGet(Self, last.args[1]).ret = <<last.args[2]>>
        /\ \A j \in Keys : DoContains(Self, j) = DoContains(old, j)
        /\ DoLen(Self) = DoLen(old)
        /\ \A j \in (DOMAIN old.pq_index) \ {last.args[1]} :
              /\ DoGet(Self, j).outcome = "ok"
              /\ DoGet(Self, j).ret = DoGet(old, j).ret

\* an update raised a key's priority and the entry changed slot
C10_Witness ==
    /\ Returned({"update"})
    /\ Len(pq) = 3
    /\ last.args[1] \in DOMAIN old.pq_index
    /\ get(old, last.args[1]).ret[1] < last.args[2]
    /\ pq_index[last.args[1]] # old.pq_index[last.args[1]]

\* C11: absent key.  get, update and remove of the named variant, and the
\* subscript read q[k] and del q[k] of the mapping variant, called with a key
\* the queue does not hold, raise KeyError and leave pq and pq_index exactly
\* as the call found them, in every reachable state, the empty queue included.
C11_AbsentKey ==
    (/\ pc = "invariants"
     /\ last.op \in {"get", "update", "remove", "getitem", "delitem"}
     /\ last.args[1] \notin DOMAIN old.pq_index)
    => /\ last.outcome = "KeyError"
       /\ pq = old.pq
       /\ pq_index = old.pq_index

\* update of an absent key was refused by a queue holding two other keys,
\* with a priority that would have gone to the root
C11_Witness ==
    /\ pc = "invariants"
    /\ last.op = "update"
    /\ last.outcome = "KeyError"
    /\ Len(old.pq) = 2
    /\ last.args[1] \notin DOMAIN old.pq_index
    /\ last.args[2] < At(old.pq, 0).priority

\* the exception a variant raises from peek and pop on an empty queue
EmptyQueue == IF variant = "named" THEN "IndexError" ELSE "KeyError"

\* adding a key that is absent: insert, or q[key] = priority
DoInsert(q, key, priority) ==
    IF variant = "named" THEN insert(q, key, priority) ELSE __setitem__(q, key, priority)

\* C12: empty queue.  peek and pop called when the size is 0, on a fresh queue
\* or on one emptied by pops and removes, raise the variant's empty-queue
\* exception and leave pq and pq_index empty, as they were; an insert made
\* after the failure succeeds, holds exactly the inserted pair and peek
\* returns that pair.
C12_EmptyQueue ==
    (/\ pc = "invariants"
     /\ last.op \in {"peek", "pop"}
     /\ DoLen(old) = 0)
    => /\ last.outcome = EmptyQueue
       /\ pq = <<>> /\ old.pq = <<>>
       /\ DOMAIN pq_index = {} /\ DOMAIN old.pq_index = {}
       /\ \A k \in Keys, p \in Priorities :
              LET r == DoInsert(Self, k, p)
              IN  /\ r.outcome = "ok"
                  /\ r.q.pq = <<Comparator(k, p)>>
                  /\ DOMAIN r.q.pq_index = {k}
                  /\ r.q.pq_index[k] = 0
                  /\ DoPeek(r.q) = Result(r.q, "ok", <<k, p>>)

\* pop was refused by an empty queue of the mapping variant
C12_Witness ==
    /\ pc = "invariants"
    /\ last.op = "pop"
    /\ last.outcome = EmptyQueue
    /\ pq = <<>>
    /\ variant = "mapping"

\* C13: exception types of the mapping variant.  peek() and pop() on an empty
\* queue raise IndexError, and q[k] and del q[k] with an absent key raise
\* KeyError.
C13_MappingErrors ==
    (pc = "invariants" /\ variant = "mapping")
    => /\ (last.op \in {"peek", "pop"} /\ Mapping__len__(old) = 0)
              => last.outcome = "IndexError"
       /\ (last.op \in {"getitem", "delitem"}
               /\ last.args[1] \notin DOMAIN old.pq_index)
              => last.outcome = "KeyError"

C15_Upsert ==
    (pc = "invariants" /\ last.op = "upsert")
    => LET k == last.args[1]
           p == last.args[2]
           r == IF k \in DOMAIN old.pq_index THEN update(old, k, p) ELSE insert(old, k, p)
       IN  /\ last.outcome = "ok"
           /\ r.outcome = "ok"
           /\ Self = r.q
           /\ get(Self, k) = Result(Self, "ok", <<p>>)

\* upsert raised the priority of the root of a queue of three, which update
\* sinks below a child
C15_Witness ==
    /\ pc = "invariants"
    /\ last.op = "upsert"
    /\ last.outcome = "ok"
    /\ Len(old.pq) = 3
    /\ last.args[1] \in DOMAIN old.pq_index
    /\ old.pq_index[last.args[1]] = 0
    /\ pq_index[last.args[1]] # 0

\* ------------------------------------------- the two variants side by side
\* A queue of the named variant (pq, pq_index) and a queue of the mapping
\* variant (twin) are built from the same mapping and given the same calls:
\* q[k] = p beside upsert(k, p), del q[k] beside remove(k), q[k] beside get(k),
\* peek and pop beside themselves.  last records the named call and twin the
\* mapping variant's queue with the outcome and return value of its call.
\* No reference runs beside them: naive, size and inserted_keys are not kept.

PairInit ==
    \E ks \in KeyOrders : \E map \in [KeySet(ks) -> Priorities] :
        LET q == __init__(ks, map)
        IN  /\ variant = "named"
            /\ pq = q.pq
            /\ pq_index = q.pq_index
            /\ twin = Result(Mapping__init__(ks, map), "ok", <<>>)
            /\ naive = <<>>
            /\ size = 0
            /\ inserted_keys = {}
            /\ old = Queue(<<>>, EmptyDict)
            /\ last = Call("__init__", <<ks, map>>, "ok", <<>>)
            /\ pc = "invariants"
            /\ trace = <<>>
            /\ loop_index = 0
            /\ key_order = <<>>
            /\ threads = NoThreads

\* one call on each queue: r the named variant's result, t the mapping variant's
Both(op, args, r, t) ==
    /\ pc = "rule"
    /\ pc' = "invariants"
    /\ old' = Self
    /\ pq' = r.q.pq
    /\ pq_index' = r.q.pq_index
    /\ last' = Call(op, args, r.outcome, r.ret)
    /\ twin' = t
    /\ UNCHANGED <<variant, naive, size, inserted_keys, trace, loop_index, key_order, threads>>

PairSet(k, p) == Both("setitem", <<k, p>>, upsert(Self, k, p), __setitem__(twin.q, k, p))

PairDel(k) == Both("delitem", <<k>>, remove(Self, k), __delitem__(twin.q, k))

PairGet(k) == Both("getitem", <<k>>, get(Self, k), __getitem__(twin.q, k))

PairPeek == Both("peek", <<>>, peek(Self), Mapping_peek(twin.q))

PairPop == Both("pop", <<>>, pop(Self), Mapping_pop(twin.q))

PairInvariants ==
    /\ pc = "invariants"
    /\ pc' = "rule"
    /\ old' = Self
    /\ last' = NoCall
    /\ twin' = Result(twin.q, "ok", <<>>)
    /\ UNCHANGED <<variant, pq, pq_index, naive, size, inserted_keys, trace, loop_index, key_order, threads>>

PairNext ==
    \/ PairInvariants
    \/ \E k \in Keys, p \in Priorities : PairSet(k, p)
    \/ \E k \in Keys : PairDel(k)
    \/ \E k \in Keys : PairGet(k)
    \/ PairPeek
    \/ PairPop

SpecPair == PairInit /\ [][PairNext]_vars

\* C16: the subscript surface is the same machine as the named operations.
\* Built from the same mapping and given the same calls, the two variants
\* succeed on the same calls and fail on the same calls, return the same
\* value whenever they succeed, and hold equal pq and equal pq_index after
\* construction and after every call.
C16_SameMachine ==
    /\ (last.outcome = "ok") <=> (twin.outcome = "ok")
    /\ last.outcome = "ok" => last.ret = twin.ret
    /\ pq = twin.q.pq
    /\ pq_index = twin.q.pq_index

\* del q[k] and remove(k) took the root out of queues of three, and both
\* sank the moved entry below the other one
C16_Witness ==
    /\ pc = "invariants"
    /\ last.op = "delitem"
    /\ last.outcome = "ok"
    /\ twin.outcome = "ok"
    /\ Len(old.pq) = 3
    /\ old.pq_index[last.args[1]] = 0
    /\ At(twin.q.pq, 0) = At(old.pq, 1)
    /\ At(twin.q.pq, 1) = At(old.pq, 2)

\* C17: bulk construction.  IndexedHeapQueue(M), with M any mapping, the
\* empty one included, yields a queue whose size is the number of keys of M,
\* that contains exactly the keys of M, get(k) = M[k] for each of them, whose
\* pq is a heap and whose pq_index is the bijection of C2; when M is not
\* empty, peek, with no insert made before, returns a pair of M whose
\* priority is the minimum of M's priorities.
C17_BulkConstruction ==
    (pc = "invariants" /\ last.op = "__init__")
    => LET M == last.args[2]
       IN  /\ DoLen(Self) = Cardinality(DOMAIN M)
           /\ \A k \in Keys : DoContains(Self, k) <=> k \in DOMAIN M
           /\ \A k \in DOMAIN M : DoGet(Self, k) = Result(Self, "ok", <<M[k]>>)
           /\ C1_HeapInvariant
           /\ C2_IndexInvariant
           /\ DOMAIN M = {} => DoPeek(Self).outcome = EmptyQueue
           /\ DOMAIN M # {} =>
                  LET r == DoPeek(Self)
                  IN  /\ r.outcome = "ok"
                      /\ r.ret[1] \in DOMAIN M
                      /\ M[r.ret[1]] = r.ret[2]
                      /\ \A k \in DOMAIN M : r.ret[2] <= M[k]

\* the named variant was bulk-loaded with three keys and the only minimum
\* was the last key of the mapping
C17_Witness ==
    /\ variant = "named"
    /\ pc = "invariants"
    /\ last.op = "__init__"
    /\ Len(last.args[1]) = 3
    /\ At(pq, 0).key = last.args[1][3]
    /\ \A i \in 1 .. 2 : At(pq, 0).priority < At(pq, i).priority

\* ------------------------------------- key order of the dict pq_index
\* A dict iterates its keys in the order they were first assigned:
\* d[key] = value puts a new key last and leaves a present key where it is.
OrderSet(order, key) ==
    IF \E i \in 1 .. Len(order) : order[i] = key THEN order ELSE Append(order, key)

\* the bulk load without the placeholders written in the mapping's key order
PlaceheldOrder_skipped(order, map_keys) == order

\* for key in map.keys(): ...; self.pq_index[key] = -1
RECURSIVE PlaceheldOrder(_, _)
PlaceheldOrder(order, map_keys) ==
    IF Len(map_keys) = 0
    THEN order
    ELSE PlaceheldOrder(OrderSet(order, Head(map_keys)), Tail(map_keys))

\* for i, item in enumerate(self.pq): self.pq_index[item.key] = i
RECURSIVE EnumeratedOrder(_, _, _)
EnumeratedOrder(order, list, i) ==
    IF i >= Len(list)
    THEN order
    ELSE EnumeratedOrder(OrderSet(order, At(list, i).key), list, i + 1)

\* the key order of pq_index as the mapping variant's IndexedHeapQueue(map)
\* leaves it
Mapping__init__order(map_keys, map) ==
    IF Len(map_keys) = 0
    THEN <<>>
    ELSE EnumeratedOrder(PlaceheldOrder(<<>>, map_keys),
                         heapify(Appended(<<>>, map_keys, map)), 0)

\* list(q): __iter__ is iter(self.pq_index)
Mapping__iter__(order) == order

\* list(q.keys()), list(q.values()), list(q.items()): the views of
\* collections.abc iterate the queue and read q[key] for each key
keys(order) == Mapping__iter__(order)

values(q, order) ==
    [i \in 1 .. Len(order) |-> __getitem__(q, Mapping__iter__(order)[i]).ret[1]]

items(q, order) ==
    [i \in 1 .. Len(order) |->
        <<Mapping__iter__(order)[i], __getitem__(q, Mapping__iter__(order)[i]).ret[1]>>]

\* C18: bulk construction preserves the key iteration order.  Right after
\* the mapping variant's IndexedHeapQueue(M), list(q) and list(q.keys()) are
\* M's keys, list(q.values()) M's values and list(q.items()) M's pairs, each
\* in M's own iteration order, whatever slots heapify gave the entries.
C18_IterationOrder ==
    (pc = "invariants" /\ last.op = "__init__" /\ variant = "mapping")
    => LET map_keys == last.args[1]
           M == last.args[2]
           order == Mapping__init__order(map_keys, M)
       IN  /\ Mapping__iter__(order) = map_keys
           /\ keys(order) = map_keys
           /\ values(Self, order) = [i \in 1 .. Len(map_keys) |-> M[map_keys[i]]]
           /\ items(Self, order)
                  = [i \in 1 .. Len(map_keys) |-> <<map_keys[i], M[map_keys[i]]>>]

\* three keys were loaded and heapify put the last key of the mapping at
\* slot 0 and the first key at the last slot
C18_Witness ==
    /\ variant = "mapping"
    /\ pc = "invariants"
    /\ last.op = "__init__"
    /\ Len(pq) = 3
    /\ At(pq, 0).key = last.args[1][3]
    /\ At(pq, 2).key = last.args[1][1]

\* --------------------------------------------------------- a scripted run
\* A run of the named variant from the empty queue that makes nine calls of
\* fixed kinds, three inserts, peek, pop, update, peek, remove, pop, with any
\* key and priority of the scenario's; trace keeps every call made with its
\* outcome and return value.
ScenarioKeys == {"a", "b", "c"}

ScenarioPriorities == {0, 1, 3, 5}

ScenarioOps ==
    <<"insert", "insert", "insert", "peek", "pop", "update", "peek", "remove", "pop">>

ScenarioInit ==
    LET q == __init__(<<>>, EmptyDict)
    IN  /\ variant = "named"
        /\ pq = q.pq
        /\ pq_index = q.pq_index
        /\ naive = <<>>
        /\ size = 0
        /\ inserted_keys = {}
        /\ old = Queue(<<>>, EmptyDict)
        /\ last = Call("__init__", <<<<>>, EmptyDict>>, "ok", <<>>)
        /\ pc = "rule"
        /\ twin = NoTwin
        /\ trace = <<>>
        /\ loop_index = 0
        /\ key_order = <<>>
        /\ threads = NoThreads

\* the next call of the script is an op, made with args
Step(op, args, r) ==
    /\ Len(trace) < Len(ScenarioOps)
    /\ ScenarioOps[Len(trace) + 1] = op
    /\ old' = Self
    /\ pq' = r.q.pq
    /\ pq_index' = r.q.pq_index
    /\ last' = Call(op, args, r.outcome, r.ret)
    /\ trace' = Append(trace, Call(op, args, r.outcome, r.ret))
    /\ UNCHANGED <<variant, naive, size, inserted_keys, pc, twin, loop_index, key_order, threads>>

ScenarioInsert(k, p) == Step("insert", <<k, p>>, insert(Self, k, p))

ScenarioUpdate(k, p) == Step("update", <<k, p>>, update(Self, k, p))

ScenarioRemove(k) == Step("remove", <<k>>, remove(Self, k))

ScenarioPeek == Step("peek", <<>>, peek(Self))

ScenarioPop == Step("pop", <<>>, pop(Self))

ScenarioNext ==
    \/ \E k \in ScenarioKeys, p \in ScenarioPriorities : ScenarioInsert(k, p)
    \/ \E k \in ScenarioKeys, p \in ScenarioPriorities : ScenarioUpdate(k, p)
    \/ \E k \in ScenarioKeys : ScenarioRemove(k)
    \/ ScenarioPeek
    \/ ScenarioPop

SpecScenario == ScenarioInit /\ [][ScenarioNext]_vars

\* the calls of the scenario of claim C19, what each returns and the size
\* after each
C19_Calls ==
    <<Call("insert", <<"a", 5>>, "ok", <<>>),
      Call("insert", <<"b", 1>>, "ok", <<>>),
      Call("insert", <<"c", 3>>, "ok", <<>>),
      Call("peek", <<>>, "ok", <<"b", 1>>),
      Call("pop", <<>>, "ok", <<"b", 1>>),
      Call("update", <<"c", 0>>, "ok", <<>>),
      Call("peek", <<>>, "ok", <<"c", 0>>),
      Call("remove", <<"a">>, "ok", <<>>),
      Call("pop", <<>>, "ok", <<"c", 0>>)>>

C19_Sizes == <<1, 2, 3, 3, 2, 2, 2, 1, 0>>

\* the first n calls made are the first n calls of the scenario
C19_Followed(n) ==
    /\ n <= Len(trace)
    /\ \A i \in 1 .. n :
           /\ trace[i].op = C19_Calls[i].op
           /\ trace[i].args = C19_Calls[i].args

\* C19: concrete scenario.  From the empty queue, insert a:5, b:1, c:3; peek
\* returns (b, 1); pop returns (b, 1) and the size is 2; after update(c, 0)
\* peek returns (c, 0); after remove(a) the size is 1; the final pop returns
\* (c, 0) and the queue is empty.  Every call of the scenario returns normally.
C19_Scenario ==
    \A n \in 1 .. Len(trace) :
        C19_Followed(n)
        => /\ trace[n].outcome = "ok"
           /\ trace[n].ret = C19_Calls[n].ret
           /\ n = Len(trace) =>
                  /\ __len__(Self) = C19_Sizes[n]
                  /\ n = Len(C19_Calls) => (pq = <<>> /\ DOMAIN pq_index = {})

\* the nine calls of the scenario have been made
C19_Witness ==
    /\ Len(trace) = Len(C19_Calls)
    /\ C19_Followed(Len(C19_Calls))
    /\ last.op = "pop"
    /\ last.ret = <<"c", 0>>

\* C20: read-only calls.  peek, get (q[k]), contains, len and key iteration
\* leave pq and pq_index as they found them whether they return or raise, so
\* however many of them are made between two mutating calls, every later
\* call (pop, peek, get, insert, shown here) gives the result it would have
\* given without them.
C20_ReadOnly ==
    (/\ pc = "invariants"
     /\ last.op \in {"peek", "get", "getitem", "contains", "len", "iter"})
    => /\ pq = old.pq
       /\ pq_index = old.pq_index
       /\ DoPop(Self) = DoPop(old)
       /\ DoPeek(Self) = DoPeek(old)
       /\ \A k \in Keys :
              /\ DoGet(Self, k) = DoGet(old, k)
              /\ DoInsert(Self, k, 0) = DoInsert(old, k, 0)

\* q[k] of the mapping variant raised KeyError on a queue holding two other
\* keys
C20_Witness ==
    /\ pc = "invariants"
    /\ last.op = "getitem"
    /\ last.outcome = "KeyError"
    /\ Len(old.pq) = 2
    /\ Len(pq) = 2

\* changing the priority of a key that is present: update, or q[key] = priority
DoUpdate(q, key, priority) ==
    IF variant = "named" THEN update(q, key, priority) ELSE __setitem__(q, key, priority)

\* C21: update with the current priority.  update(k, p), upsert(k, p) or
\* q[k] = p with p equal to the priority k has makes no swap: the call
\* returns normally, pq is the same slot by slot, pq_index is the same, so
\* size and every key's priority are unchanged, and making the call again
\* changes nothing either.
C21_UpdateSamePriority ==
    (/\ pc = "invariants"
     /\ last.op \in {"update", "upsert", "setitem"}
     /\ last.args[1] \in DOMAIN old.pq_index
     /\ last.args[2] = At(old.pq, old.pq_index[last.args[1]]).priority)
    => /\ last.outcome = "ok"
       /\ pq = old.pq
       /\ pq_index = old.pq_index
       /\ DoLen(Self) = DoLen(old)
       /\ DoUpdate(Self, last.args[1], last.args[2]) = Result(Self, "ok", <<>>)

\* the root of a queue of three was given the priority it had, which both
\* of its children have too
C21_Witness ==
    /\ Returned({"update", "setitem"})
    /\ Len(old.pq) = 3
    /\ last.args[1] \in DOMAIN old.pq_index
    /\ old.pq_index[last.args[1]] = 0
    /\ At(old.pq, 0).priority = last.args[2]
    /\ At(old.pq, 1).priority = last.args[2]
    /\ At(old.pq, 2).priority = last.args[2]

\* removing a key that is present: remove(key), or del q[key]
DoRemove(q, key) ==
    IF variant = "named" THEN remove(q, key) ELSE __delitem__(q, key)

\* C28: remove at the last slot.  remove(k), or del q[k], with k in the last
\* slot of pq, the queue of one entry included, repositions nothing: pq
\* afterwards is the old pq without its last entry, k is gone from pq_index
\* and every other key has the slot it had.
C28_RemoveLast ==
    (/\ pc = "invariants"
     /\ last.op \in {"remove", "delitem"}
     /\ last.args[1] \in DOMAIN old.pq_index
     /\ old.pq_index[last.args[1]] = Len(old.pq) - 1)
    => /\ last.outcome = "ok"
       /\ pq = SubSeq(old.pq, 1, Len(old.pq) - 1)
       /\ DOMAIN pq_index = (DOMAIN old.pq_index) \ {last.args[1]}
       /\ \A j \in DOMAIN pq_index : pq_index[j] = old.pq_index[j]

\* the key in the last slot of a queue of three was removed, and its
\* priority was lower than that of the entry in the slot before it
C28_Witness ==
    /\ Returned({"remove", "delitem"})
    /\ Len(old.pq) = 3
    /\ last.args[1] \in DOMAIN old.pq_index
    /\ old.pq_index[last.args[1]] = 2
    /\ At(old.pq, 2).priority < At(old.pq, 1).priority
    /\ Len(pq) = 2

\* C29: removing the minimum by key is popping.  In every non-empty state
\* between two calls, with (k, p) what peek returns, remove(k) (del q[k])
\* and pop() lead to the same pq and the same pq_index; every pop made left
\* the queue as remove of the returned key would have, and every remove of
\* the key peek returned left it as pop would have.
C29_RemoveMinIsPop ==
    /\ (pc = "rule" /\ DoPeek(Self).outcome = "ok")
           => /\ DoRemove(Self, DoPeek(Self).ret[1]).outcome = "ok"
              /\ DoPop(Self).outcome = "ok"
              /\ DoRemove(Self, DoPeek(Self).ret[1]).q = DoPop(Self).q
    /\ (pc = "invariants" /\ last.op = "pop" /\ last.outcome = "ok")
           => Self = DoRemove(old, last.ret[1]).q
    /\ (pc = "invariants" /\ last.op \in {"remove", "delitem"}
            /\ DoPeek(old).outcome = "ok" /\ DoPeek(old).ret[1] = last.args[1])
           => Self = DoPop(old).q

\* del q[k] took out the key peek returned from a queue of three, the entry
\* moved to slot 0 stayed there
C29_Witness ==
    /\ variant = "mapping"
    /\ Returned({"delitem"})
    /\ Len(old.pq) = 3
    /\ At(old.pq, 0).key = last.args[1]
    /\ At(pq, 0) = At(old.pq, 2)

\* ------------------------------------------- one call, loop by loop
\* One public call of the named variant on a heap of up to MaxHeap entries,
\* followed through its _sift_up and _sink_down loops one iteration at a
\* time: pc is the method the call is in ("rule" before the call, "done"
\* after it), loop_index the loop's local variable index, old the queue the
\* call found, last the call, and trace the iterations made so far.  The
\* mapping variant's two loops have the same text (lines 279-319 of its file).
MaxHeap == 6

StepKeys == 1 .. MaxHeap + 1

\* the heaps a call starts from: keys 1 .. n inserted in this order, key i
\* with priority ps[i], for every ps that is itself in heap order; every
\* shape of heap comes out of such a sequence of inserts
RECURSIVE Inserted(_, _, _)
Inserted(q, ps, i) ==
    IF i > Len(ps) THEN q ELSE Inserted(insert(q, i, ps[i]).q, ps, i + 1)

HeapOrdered(ps) == \A i \in 2 .. Len(ps) : ps[i \div 2] <= ps[i]

StepInit ==
    \E n \in 0 .. MaxHeap : \E ps \in [1 .. n -> Priorities] :
        LET q == Inserted(Queue(<<>>, EmptyDict), ps, 1)
        IN  /\ HeapOrdered(ps)
            /\ variant = "named"
            /\ pq = q.pq
            /\ pq_index = q.pq_index
            /\ naive = <<>>
            /\ size = 0
            /\ inserted_keys = {}
            /\ old = q
            /\ last = NoCall
            /\ pc = "rule"
            /\ twin = NoTwin
            /\ trace = <<>>
            /\ loop_index = 0
            /\ key_order = <<>>
            /\ threads = NoThreads

\* one iteration of a loop: it looked at slot from and left index at slot
\* to; to = from when it returned without a swap
Iteration(fn, from, to) == [fn |-> fn, from |-> from, to |-> to]

\* parent_index = (index - 1) // 2
parent_index(i) == (i - 1) \div 2

\* the if of _sift_up swapping when the entry is not greater than its parent
sift_up_swaps_not_greater(q, i) == i > 0 /\ ~Lt(At(q.pq, parent_index(i)), At(q.pq, i))

\* the if of _sift_up's loop body: self.pq[index] < self.pq[parent_index]
sift_up_swaps(q, i) == i > 0 /\ Lt(At(q.pq, i), At(q.pq, parent_index(i)))

\* smallest computed with the right child looked at before the left
smallest_right_first(q, i) ==
    LET left_idx == 2 * i + 1
        right_idx == 2 * i + 2
        s1 == IF right_idx < Len(q.pq) /\ Lt(At(q.pq, right_idx), At(q.pq, i))
              THEN right_idx ELSE i
    IN  IF left_idx < Len(q.pq) /\ Lt(At(q.pq, left_idx), At(q.pq, s1))
        THEN left_idx ELSE s1

\* smallest as _sink_down's loop body computes it
smallest(q, i) ==
    LET left_idx == 2 * i + 1
        right_idx == 2 * i + 2
        s1 == IF left_idx < Len(q.pq) /\ Lt(At(q.pq, left_idx), At(q.pq, i))
              THEN left_idx ELSE i
    IN  IF right_idx < Len(q.pq) /\ Lt(At(q.pq, right_idx), At(q.pq, s1))
        THEN right_idx ELSE s1

\* the call raises before it assigns anything
Raise(op, args, outcome) ==
    /\ pc' = "done"
    /\ last' = Call(op, args, outcome, <<>>)
    /\ old' = Self
    /\ UNCHANGED <<pq, pq_index, loop_index, trace>>

\* the call enters _sift_up(i) or _sink_down(i) on queue q
Enter(op, args, ret, fn, q, i) ==
    /\ pc' = fn
    /\ last' = Call(op, args, "running", ret)
    /\ old' = Self
    /\ pq' = q.pq
    /\ pq_index' = q.pq_index
    /\ loop_index' = i
    /\ trace' = <<>>

\* the call returns, leaving queue q
Return(op, args, ret, q) ==
    /\ pc' = "done"
    /\ last' = Call(op, args, "ok", ret)
    /\ pq' = q.pq
    /\ pq_index' = q.pq_index
    /\ UNCHANGED loop_index

StepInsert(k, p) ==
    /\ pc = "rule"
    /\ IF k \in DOMAIN pq_index
       THEN Raise("insert", <<k, p>>, "ValueError")
       ELSE LET list == Append(pq, Comparator(k, p))
            IN  Enter("insert", <<k, p>>, <<>>, "_sift_up",
                      Queue(list, DictSet(pq_index, k, Len(list) - 1)), Len(list) - 1)
    /\ UNCHANGED <<variant, naive, size, inserted_keys, twin, key_order, threads>>

\* update taking the _sift_up branch also when the priority is unchanged
StepUpdate_not_greater(k, p) ==
    /\ pc = "rule"
    /\ IF k \notin DOMAIN pq_index
       THEN Raise("update", <<k, p>>, "KeyError")
       ELSE LET i == pq_index[k]
                item == At(pq, i)
                old_priority == item.priority
            IN  Enter("update", <<k, p>>, <<>>,
                      IF p <= old_priority THEN "_sift_up" ELSE "_sink_down",
                      Queue(Put(pq, i, Comparator(item.key, p)), pq_index), i)
    /\ UNCHANGED <<variant, naive, size, inserted_keys, twin, key_order, threads>>

StepUpdate(k, p) ==
    /\ pc = "rule"
    /\ IF k \notin DOMAIN pq_index
       THEN Raise("update", <<k, p>>, "KeyError")
       ELSE LET i == pq_index[k]
                item == At(pq, i)
                old_priority == item.priority
            IN  Enter("update", <<k, p>>, <<>>,
                      IF p < old_priority THEN "_sift_up" ELSE "_sink_down",
                      Queue(Put(pq, i, Comparator(item.key, p)), pq_index), i)
    /\ UNCHANGED <<variant, naive, size, inserted_keys, twin, key_order, threads>>

\* remove calling _sink_down only after the move
StepRemove_sink_only(k) ==
    /\ pc = "rule"
    /\ IF k \notin DOMAIN pq_index
       THEN Raise("remove", <<k>>, "KeyError")
       ELSE LET i == pq_index[k]
                last_item == pq[Len(pq)]
                rest == ButLast(pq)
            IN  IF i < Len(rest)
                THEN Enter("remove", <<k>>, <<>>, "_sink_down",
                           Queue(Put(rest, i, last_item),
                                 DictSet(pq_index, last_item.key, i)), i)
                ELSE /\ Return("remove", <<k>>, <<>>, Queue(rest, DictDel(pq_index, k)))
                     /\ old' = Self
                     /\ trace' = <<>>
    /\ UNCHANGED <<variant, naive, size, inserted_keys, twin, key_order, threads>>

StepRemove(k) ==
    /\ pc = "rule"
    /\ IF k \notin DOMAIN pq_index
       THEN Raise("remove", <<k>>, "KeyError")
       ELSE LET i == pq_index[k]
                last_item == pq[Len(pq)]
                rest == ButLast(pq)
            IN  IF i < Len(rest)
                THEN Enter("remove", <<k>>, <<>>, "_sift_up",
                           Queue(Put(rest, i, last_item),
                                 DictSet(pq_index, last_item.key, i)), i)
                ELSE /\ Return("remove", <<k>>, <<>>, Queue(rest, DictDel(pq_index, k)))
                     /\ old' = Self
                     /\ trace' = <<>>
    /\ UNCHANGED <<variant, naive, size, inserted_keys, twin, key_order, threads>>

StepPop ==
    /\ pc = "rule"
    /\ IF Len(pq) = 0
       THEN Raise("pop", <<>>, "IndexError")
       ELSE LET min_item == At(pq, 0)
                last_item == pq[Len(pq)]
                rest == ButLast(pq)
                ret == <<min_item.key, min_item.priority>>
            IN  IF Len(rest) > 0
                THEN Enter("pop", <<>>, ret, "_sink_down",
                           Queue(Put(rest, 0, last_item),
                                 DictSet(pq_index, last_item.key, 0)), 0)
                ELSE /\ Return("pop", <<>>, ret,
                               Queue(rest, DictDel(pq_index, min_item.key)))
                     /\ old' = Self
                     /\ trace' = <<>>
    /\ UNCHANGED <<variant, naive, size, inserted_keys, twin, key_order, threads>>

\* an iteration of _sift_up that swaps with the parent
SiftUpSwap ==
    /\ pc = "_sift_up"
    /\ sift_up_swaps(Self, loop_index)
    /\ LET q == SwapSlots(Self, loop_index, parent_index(loop_index))
       IN  /\ pq' = q.pq
           /\ pq_index' = q.pq_index
    /\ loop_index' = parent_index(loop_index)
    /\ trace' = Append(trace, Iteration("_sift_up", loop_index, parent_index(loop_index)))
    /\ UNCHANGED <<variant, naive, size, inserted_keys, twin, key_order, threads, old, last, pc>>

\* _sift_up leaves its loop: insert and update return, remove goes on to
\* _sink_down(index) with the index it was given
SiftUpReturn ==
    /\ pc = "_sift_up"
    /\ ~sift_up_swaps(Self, loop_index)
    /\ trace' = Append(trace, Iteration("_sift_up", loop_index, loop_index))
    /\ IF last.op = "remove"
       THEN /\ pc' = "_sink_down"
            /\ loop_index' = old.pq_index[last.args[1]]
            /\ UNCHANGED <<pq, pq_index, last>>
       ELSE Return(last.op, last.args, last.ret, Self)
    /\ UNCHANGED <<variant, naive, size, inserted_keys, twin, key_order, threads, old>>

\* an iteration of _sink_down that swaps and leaves index where it was
SinkDownSwap_stays ==
    /\ pc = "_sink_down"
    /\ smallest(Self, loop_index) # loop_index
    /\ LET q == SwapSlots(Self, loop_index, smallest(Self, loop_index))
       IN  /\ pq' = q.pq
           /\ pq_index' = q.pq_index
    /\ loop_index' = loop_index
    /\ trace' = Append(trace, Iteration("_sink_down", loop_index, smallest(Self, loop_index)))
    /\ UNCHANGED <<variant, naive, size, inserted_keys, twin, key_order, threads, old, last, pc>>

\* an iteration of _sink_down that swaps with the smallest child
SinkDownSwap ==
    /\ pc = "_sink_down"
    /\ smallest(Self, loop_index) # loop_index
    /\ LET q == SwapSlots(Self, loop_index, smallest(Self, loop_index))
       IN  /\ pq' = q.pq
           /\ pq_index' = q.pq_index
    /\ loop_index' = smallest(Self, loop_index)
    /\ trace' = Append(trace, Iteration("_sink_down", loop_index, smallest(Self, loop_index)))
    /\ UNCHANGED <<variant, naive, size, inserted_keys, twin, key_order, threads, old, last, pc>>

\* _sink_down leaves its loop: update returns, remove and pop delete the
\* key from pq_index and return
SinkDownReturn ==
    /\ pc = "_sink_down"
    /\ smallest(Self, loop_index) = loop_index
    /\ trace' = Append(trace, Iteration("_sink_down", loop_index, loop_index))
    /\ Return(last.op, last.args, last.ret,
              IF last.op = "remove" THEN Queue(pq, DictDel(pq_index, last.args[1]))
              ELSE IF last.op = "pop" THEN Queue(pq, DictDel(pq_index, last.ret[1]))
              ELSE Self)
    /\ UNCHANGED <<variant, naive, size, inserted_keys, twin, key_order, threads, old>>

StepNext ==
    \/ \E k \in StepKeys, p \in Priorities : StepInsert(k, p)
    \/ \E k \in StepKeys, p \in Priorities : StepUpdate(k, p)
    \/ \E k \in StepKeys : StepRemove(k)
    \/ StepPop
    \/ SiftUpSwap
    \/ SiftUpReturn
    \/ SinkDownSwap
    \/ SinkDownReturn

SpecSteps == StepInit /\ [][StepNext]_vars

\* the iterations of a loop that swapped
Swaps(fn) == {n \in 1 .. Len(trace) : trace[n].fn = fn /\ trace[n].to # trace[n].from}

\* what the call in progress comes to when made in one piece
Whole ==
    IF last.op = "insert" THEN insert(old, last.args[1], last.args[2])
    ELSE IF last.op = "update" THEN update(old, last.args[1], last.args[2])
    ELSE IF last.op = "remove" THEN remove(old, last.args[1])
    ELSE pop(old)

StepsAgree ==
    pc = "done" => /\ Self = Whole.q
                   /\ last.outcome = Whole.outcome
                   /\ last.ret = Whole.ret

\* C22: remove restores the heap in one direction.  In remove(k) with k at a
\* slot i that is not the last, once the former last entry is in slot i, at
\* most one of _sift_up(i) and _sink_down(i) swaps: when _sift_up has moved
\* the entry toward the root, _sink_down(i), which finds the entry's former
\* parent in slot i, swaps nothing; and pq is a heap when remove returns.
C22_RemoveOneDirection ==
    (last.op = "remove" /\ pc \in {"_sift_up", "_sink_down", "done"})
    => /\ Swaps("_sift_up") = {} \/ Swaps("_sink_down") = {}
       /\ pc = "done" => C1_HeapInvariant

\* remove returned after its _sift_up had swapped and its _sink_down had
\* looked at slot i and left
C22_Witness ==
    /\ pc = "done"
    /\ last.op = "remove"
    /\ last.outcome = "ok"
    /\ Swaps("_sift_up") # {}
    /\ trace[Len(trace)] = Iteration("_sink_down", old.pq_index[last.args[1]],
                                     old.pq_index[last.args[1]])

\* C25: sink-down tie rule.  Every iteration of _sink_down swaps the entry
\* only with a child whose priority is strictly smaller than the entry's;
\* the child taken has the smaller priority of the two, and the left child
\* 2i+1 when both have the same, strictly smaller, priority; the loop goes on
\* from the child's slot, and it ends, swapping nothing, as soon as no child
\* is strictly smaller.
C25_SinkDownTieRule ==
    [][pc = "_sink_down" =>
          LET i == loop_index
              children == {c \in {2 * i + 1, 2 * i + 2} : c < Len(pq)}
              smaller == {c \in children : At(pq, c).priority < At(pq, i).priority}
          IN  IF smaller = {}
              THEN pq' = pq /\ pc' = "done"
              ELSE \E c \in smaller :
                       /\ \A d \in children : At(pq, c).priority <= At(pq, d).priority
                       /\ (\A d \in children : At(pq, d).priority = At(pq, c).priority)
                              => c = 2 * i + 1
                       /\ pq' = Put(Put(pq, i, At(pq, c)), c, At(pq, i))
                       /\ pq_index' = DictSet(DictSet(pq_index, At(pq, c).key, i),
                                              At(pq, i).key, c)
                       /\ loop_index' = c
                       /\ pc' = "_sink_down"]_vars

\* _sink_down has just swapped an entry with its left child, whose priority
\* the right child has too
C25_Witness ==
    /\ pc = "_sink_down"
    /\ Len(trace) > 0
    /\ trace[Len(trace)].fn = "_sink_down"
    /\ trace[Len(trace)].to = 2 * trace[Len(trace)].from + 1
    /\ trace[Len(trace)].to + 1 < Len(pq)
    /\ At(pq, trace[Len(trace)].from).priority = At(pq, trace[Len(trace)].to + 1).priority
    /\ At(pq, trace[Len(trace)].from).priority < At(pq, trace[Len(trace)].to).priority

\* C26: sift-up is strict.  An iteration of _sift_up swaps the entry with
\* its parent only when the entry's priority is strictly less than the
\* parent's, and the swap writes the new slot of both swapped entries into
\* pq_index; otherwise the loop ends and changes nothing.  So insert(k, p)
\* with p equal to the priority of the parent of the appended slot leaves k
\* in that last slot and every other entry where it was.
C26_SiftUpStrict ==
    /\ [](/\ pc = "done"
          /\ last.op = "insert"
          /\ last.outcome = "ok"
          /\ Len(old.pq) > 0
          /\ last.args[2] = At(old.pq, (Len(old.pq) - 1) \div 2).priority
          => /\ pq = Append(old.pq, Comparator(last.args[1], last.args[2]))
             /\ DOMAIN pq_index = DOMAIN old.pq_index \cup {last.args[1]}
             /\ pq_index[last.args[1]] = Len(old.pq)
             /\ \A j \in DOMAIN old.pq_index : pq_index[j] = old.pq_index[j])
    /\ [][pc = "_sift_up" =>
             LET i == loop_index
                 parent == (i - 1) \div 2
             IN  IF i > 0 /\ At(pq, i).priority < At(pq, parent).priority
                 THEN /\ pq' = Put(Put(pq, i, At(pq, parent)), parent, At(pq, i))
                      /\ pq_index'[At(pq, i).key] = parent
                      /\ pq_index'[At(pq, parent).key] = i
                      /\ \A j \in DOMAIN pq_index \ {At(pq, i).key, At(pq, parent).key} :
                             pq_index'[j] = pq_index[j]
                      /\ DOMAIN pq_index' = DOMAIN pq_index
                      /\ loop_index' = parent
                      /\ pc' = "_sift_up"
                 ELSE /\ pq' = pq
                      /\ pq_index' = pq_index
                      /\ pc' # "_sift_up"]_vars

\* insert appended a key with the priority of its parent to a heap of five
\* entries, and _sift_up looked at the new slot once and left
C26_Witness ==
    /\ pc = "done"
    /\ last.op = "insert"
    /\ last.outcome = "ok"
    /\ Len(old.pq) = 5
    /\ last.args[2] = At(old.pq, 2).priority
    /\ At(old.pq, 0).priority < last.args[2]
    /\ trace = <<Iteration("_sift_up", 5, 5)>>

\* slot a is slot s or on the path from slot s to the root
OnPathToRoot(a, s) == \E d \in 0 .. MaxHeap : (s + 1) \div (2 ^ d) = a + 1

\* C27: update direction.  update(k, p) of a present key with p strictly
\* less than k's priority runs _sift_up only: k's slot never increases and
\* only slots on the path from k's old slot to the root change their entry.
\* With p equal or greater it runs _sink_down only: k's slot never decreases
\* and only slots of the subtree of k's old slot change their entry.  pq is
\* a heap when update returns.
C27_UpdateDirection ==
    (/\ last.op = "update"
     /\ pc \in {"_sift_up", "_sink_down", "done"}
     /\ last.args[1] \in DOMAIN old.pq_index)
    => LET k == last.args[1]
           p == last.args[2]
           i == old.pq_index[k]
       IN  /\ Len(trace) > 0 \/ pc # "done"
           /\ pc = "done" => C1_HeapInvariant
           /\ p < At(old.pq, i).priority
                  => /\ pc # "_sink_down"
                     /\ \A n \in 1 .. Len(trace) : trace[n].fn = "_sift_up"
                     /\ pq_index[k] <= i
                     /\ \A n \in 1 .. Len(trace) : trace[n].to <= trace[n].from
                     /\ \A s \in 0 .. Len(pq) - 1 :
                            ~OnPathToRoot(s, i) => At(pq, s) = At(old.pq, s)
           /\ ~(p < At(old.pq, i).priority)
                  => /\ pc # "_sift_up"
                     /\ \A n \in 1 .. Len(trace) : trace[n].fn = "_sink_down"
                     /\ pq_index[k] >= i
                     /\ \A n \in 1 .. Len(trace) : trace[n].to >= trace[n].from
                     /\ \A s \in 0 .. Len(pq) - 1 :
                            ~OnPathToRoot(i, s) => At(pq, s) = At(old.pq, s)

\* update lowered the priority of a key two levels below the root and
\* _sift_up swapped it twice, up to slot 0
C27_Witness ==
    /\ pc = "done"
    /\ last.op = "update"
    /\ last.outcome = "ok"
    /\ old.pq_index[last.args[1]] = 4
    /\ pq_index[last.args[1]] = 0
    /\ trace = <<Iteration("_sift_up", 4, 1), Iteration("_sift_up", 1, 0),
                 Iteration("_sift_up", 0, 0)>>

\* a call that has entered a loop goes on running: nothing else runs and
\* nothing is waited for
SpecStepsFair ==
    /\ SpecSteps
    /\ WF_vars(SiftUpSwap \/ SiftUpReturn \/ SinkDownSwap \/ SinkDownReturn)

\* floor(log2(n)) for n >= 1
Log2Floor(n) == CHOOSE d \in 0 .. MaxHeap + 1 : 2 ^ d <= n /\ n < 2 ^ (d + 1)

\* the swaps the call has made so far
SwapCount == Cardinality(Swaps("_sift_up")) + Cardinality(Swaps("_sink_down"))

\* C30 as stated: a call made on a queue of n entries makes at most
\* floor(log2(n)) swaps, n counted when the call is made (n >= 1).
C30_SwapsWithinLogOfSizeAtCall ==
    (pc = "done" /\ last.outcome = "ok" /\ Len(old.pq) >= 1)
    => SwapCount <= Log2Floor(Len(old.pq))

\* C30: termination.  Every call that enters a loop returns; each iteration
\* of _sift_up that goes on to another strictly decreases index, staying at
\* or above 0, each such iteration of _sink_down strictly increases it,
\* staying below len(pq); and a call makes at most floor(log2(m)) swaps, m
\* being the number of entries of pq while its loops run: one more than the
\* queue held for insert, as many for update, one fewer for remove and pop.
C30_Terminates ==
    /\ (pc \in {"_sift_up", "_sink_down"}) ~> (pc = "done")
    /\ [](pc \in {"_sift_up", "_sink_down", "done"}
              => SwapCount <= (IF Len(pq) = 0 THEN 0 ELSE Log2Floor(Len(pq))))
    /\ [][/\ (pc = "_sift_up" /\ pc' = "_sift_up")
                 => (0 <= loop_index' /\ loop_index' < loop_index)
          /\ (pc = "_sink_down" /\ pc' = "_sink_down")
                 => (loop_index < loop_index' /\ loop_index' < Len(pq))
          /\ pc \in {"_sift_up", "_sink_down"} => Len(pq') = Len(pq)]_vars

\* insert into a queue of three entries, four with the new one, made two
\* swaps and returned
C30_Witness ==
    /\ pc = "done"
    /\ last.op = "insert"
    /\ last.outcome = "ok"
    /\ Len(old.pq) = 3
    /\ SwapCount = 2

\* ------------------------------------- construction from any keys()
\* IndexedHeapQueue(map) for a map that is any object with keys() and
\* __getitem__ (SupportsKeysAndGetItem): keys() may yield a key more than
\* once.  The queue built is then only read.
KeyEnumerations == UNION {[1 .. n -> Keys] : n \in 0 .. MaxKeys}

BulkInit ==
    \E ks \in KeyEnumerations : \E map \in [KeySet(ks) -> Priorities] :
    \E v \in {"named", "mapping"} :
        LET q == IF v = "named" THEN __init__(ks, map) ELSE Mapping__init__(ks, map)
        IN  /\ variant = v
            /\ pq = q.pq
            /\ pq_index = q.pq_index
            /\ naive = <<>>
            /\ size = 0
            /\ inserted_keys = {}
            /\ old = Queue(<<>>, EmptyDict)
            /\ last = Call("__init__", <<ks, map>>, "ok", <<>>)
            /\ pc = "invariants"
            /\ twin = NoTwin
            /\ trace = <<>>
            /\ loop_index = 0
            /\ key_order = <<>>
            /\ threads = NoThreads

BulkNext ==
    \/ Invariants
    \/ Peek
    \/ \E k \in Keys : Get(k)
    \/ \E k \in Keys : Contains(k)
    \/ Length
    \/ \E k \in Keys : GetItem(k)
    \/ MappingPeek
    \/ \E k \in Keys : MappingContains(k)
    \/ MappingLength
    \/ MappingIter

SpecBulk == BulkInit /\ [][BulkNext]_vars

\* C23: bulk construction and repeated keys.  Construction never yields a
\* queue holding one key in two slots: when keys() yields a key more than
\* once the constructor rejects the input, so pq never has more entries than
\* pq_index has keys.
C23_RejectsRepeatedKeys ==
    (pc = "invariants" /\ last.op = "__init__")
    => /\ (\E i, j \in 1 .. Len(last.args[1]) :
               i # j /\ last.args[1][i] = last.args[1][j])
              => last.outcome # "ok"
       /\ Len(pq) = Cardinality(DOMAIN pq_index)
       /\ \A i, j \in 0 .. Len(pq) - 1 : At(pq, i).key = At(pq, j).key => i = j

\* ------------------------- key order under subscript-set, -delete and pop
\* The mapping variant with the key order of its dict pq_index kept as
\* key_order: every assignment pq_index[key] = ... of a call is an OrderSet,
\* every del pq_index[key] an OrderDel, in the order the call makes them.

\* del d[key]
OrderDel(order, key) == SelectSeq(order, LAMBDA x : x # key)

\* _sift_up and _sink_down assign pq_index[...] for the keys of the two slots
\* of every swap: these are the slots whose entry is another one afterwards
RECURSIVE SwappedOrder(_, _, _, _)
SwappedOrder(order, before, after, i) ==
    IF i >= Len(after)
    THEN order
    ELSE SwappedOrder(IF At(before, i) # At(after, i)
                      THEN OrderSet(order, At(after, i).key)
                      ELSE order,
                      before, after, i + 1)

\* q[key] = priority that deletes a present key from the dict and assigns it
\* again
__setitem__order_moves(order, q, key, priority) ==
    Append(OrderDel(order, key), key)

\* the key order q[key] = priority leaves
__setitem__order(order, q, key, priority) ==
    IF key \notin DOMAIN q.pq_index
    THEN SwappedOrder(OrderSet(order, key),
                      Append(q.pq, Comparator(key, priority)),
                      __setitem__(q, key, priority).q.pq, 0)
    ELSE SwappedOrder(order,
                      Put(q.pq, q.pq_index[key], Comparator(key, priority)),
                      __setitem__(q, key, priority).q.pq, 0)

\* the key order del q[key] leaves
__delitem__order(order, q, key) ==
    IF key \notin DOMAIN q.pq_index
    THEN order
    ELSE LET index == q.pq_index[key]
             last_item == q.pq[Len(q.pq)]
             rest == ButLast(q.pq)
         IN  OrderDel(IF index < Len(rest)
                      THEN SwappedOrder(OrderSet(order, last_item.key),
                                        Put(rest, index, last_item),
                                        __delitem__(q, key).q.pq, 0)
                      ELSE order,
                      key)

\* the key order q.pop() leaves
Mapping_pop_order(order, q) ==
    IF Len(q.pq) = 0
    THEN order
    ELSE LET min_item == At(q.pq, 0)
             last_item == q.pq[Len(q.pq)]
             rest == ButLast(q.pq)
         IN  OrderDel(IF Len(rest) > 0
                      THEN SwappedOrder(OrderSet(order, last_item.key),
                                        Put(rest, 0, last_item),
                                        Mapping_pop(q).q.pq, 0)
                      ELSE order,
                      min_item.key)

OrderInit ==
    \E ks \in KeyOrders : \E map \in [KeySet(ks) -> Priorities] :
        LET q == Mapping__init__(ks, map)
        IN  /\ variant = "mapping"
            /\ pq = q.pq
            /\ pq_index = q.pq_index
            /\ key_order = Mapping__init__order(ks, map)
            /\ threads = NoThreads
            /\ naive = <<>>
            /\ size = 0
            /\ inserted_keys = {}
            /\ old = Queue(<<>>, EmptyDict)
            /\ last = Call("__init__", <<ks, map>>, "ok", <<>>)
            /\ pc = "rule"
            /\ twin = NoTwin
            /\ trace = <<>>
            /\ loop_index = 0

\* one call: r is its result, order the key order it leaves
OrderCall(op, args, r, order) ==
    /\ variant = "mapping"
    /\ pq' = r.q.pq
    /\ pq_index' = r.q.pq_index
    /\ key_order' = order
    /\ last' = Call(op, args, r.outcome, r.ret)
    /\ UNCHANGED <<variant, naive, size, inserted_keys, old, pc, twin, trace, loop_index,
                   threads>>

OrderSetItem(k, p) ==
    /\ pc = "rule"
    /\ OrderCall("setitem", <<k, p>>, __setitem__(Self, k, p),
                 __setitem__order(key_order, Self, k, p))

OrderDelItem(k) ==
    /\ pc = "rule"
    /\ OrderCall("delitem", <<k>>, __delitem__(Self, k),
                 __delitem__order(key_order, Self, k))

OrderPop ==
    /\ pc = "rule"
    /\ OrderCall("pop", <<>>, Mapping_pop(Self), Mapping_pop_order(key_order, Self))

\* list(q), list(q.keys()), list(q.values()) and list(q.items()), read
\* together as the tests read them
OrderViews ==
    /\ pc = "rule"
    /\ OrderCall("views", <<>>,
                 Result(Self, "ok", <<Mapping__iter__(key_order), keys(key_order),
                                      values(Self, key_order), items(Self, key_order)>>),
                 key_order)

OrderNext ==
    \/ \E k \in Keys, p \in Priorities : OrderSetItem(k, p)
    \/ \E k \in Keys : OrderDelItem(k)
    \/ OrderPop
    \/ OrderViews

SpecOrder == OrderInit /\ [][OrderNext]_vars

\* C24: key iteration order is insertion order, whatever the heap does.  On
\* the mapping variant, after any subscript-sets, subscript-deletes and pops,
\* iterating the queue yields exactly the live keys, each once; a bulk load
\* yields the mapping's order; q[k] = p on a live key, with all its heap
\* swaps, leaves the order as it is; q[k] = p on a key that is not live
\* (never inserted, deleted or popped) puts it last; del q[k] and pop() take
\* their key out and leave the others in order; values() and items() give
\* each key's current priority in that order.
C24_InsertionOrder ==
    /\ [](LET ks == Mapping__iter__(key_order)
          IN  /\ KeySet(ks) = DOMAIN pq_index
              /\ Len(ks) = Cardinality(DOMAIN pq_index)
              /\ keys(key_order) = ks
              /\ Len(values(Self, key_order)) = Len(ks)
              /\ Len(items(Self, key_order)) = Len(ks)
              /\ \A i \in 1 .. Len(ks) :
                     /\ \E s \in 0 .. Len(pq) - 1 :
                            At(pq, s) = Comparator(ks[i], values(Self, key_order)[i])
                     /\ items(Self, key_order)[i] = <<ks[i], values(Self, key_order)[i]>>
              /\ last.op = "__init__" => ks = last.args[1]
              /\ last.op = "views" => last.ret[1] = ks /\ last.ret[2] = ks)
    /\ [][LET ks == Mapping__iter__(key_order)
              after == Mapping__iter__(key_order')
          IN  /\ (last'.op = "setitem" /\ last'.args[1] \in DOMAIN pq_index)
                     => after = ks
              /\ (last'.op = "setitem" /\ last'.args[1] \notin DOMAIN pq_index)
                     => after = Append(ks, last'.args[1])
              /\ (last'.op = "delitem" /\ last'.outcome = "ok")
                     => after = SelectSeq(ks, LAMBDA x : x # last'.args[1])
              /\ (last'.op = "pop" /\ last'.outcome = "ok")
                     => after = SelectSeq(ks, LAMBDA x : x # At(pq, 0).key)
              /\ (last'.outcome # "ok" \/ last'.op = "views")
                     => after = ks]_vars

\* q[k] = p has just run: k is the last of three keys in iteration order and
\* sits in slot 0, the key iterated first sits in the last slot, and the
\* priority values() gives for k is p
C24_Witness ==
    /\ last.op = "setitem"
    /\ Len(key_order) = 3
    /\ key_order[3] = last.args[1]
    /\ At(pq, 0).key = key_order[3]
    /\ At(pq, 2).key = key_order[1]
    /\ values(Self, key_order)[3] = last.args[2]

\* ------------------------------------------------- two threads, one queue
\* Two threads each make one call, insert(key, priority) or pop(), on one
\* queue of the named variant, with nothing that excludes one from the other.
\* A thread takes one step for the reads of pq and pq_index that an expression
\* makes and one step for every write to them (a write through a subscript
\* such as pq_index[pq[index].key] reads its subscript in the same step); the
\* interpreter may switch threads between any two steps.
\* threads[t] is thread t's frame: its call, the statement it is at (at),
\* its local variables and, once it is done, how the call ended.  An
\* exception no one catches ends the thread.  trace gets a mark when a call
\* begins while the other thread's call is open.
Threads == {1, 2}

\* a local variable not assigned yet
NoItem == Comparator(0, 0)

Frame(op, key, priority) ==
    [op |-> op, key |-> key, priority |-> priority, at |-> "call", fn |-> "none",
     index |-> 0, other |-> 0, min_item |-> NoItem, last_item |-> NoItem,
     first |-> NoItem, second |-> NoItem, outcome |-> "running"]

\* the calls a thread can make
ThreadCalls ==
    {Frame("pop", 0, 0)} \cup {Frame("insert", k, p) : k \in Keys, p \in Priorities}

ThreadsInit ==
    \E n \in 0 .. MaxKeys - 1 : \E ps \in [1 .. n -> Priorities] :
    \E calls \in [Threads -> ThreadCalls] :
        LET q == Inserted(Queue(<<>>, EmptyDict), ps, 1)
        IN  /\ HeapOrdered(ps)
            /\ variant = "named"
            /\ pq = q.pq
            /\ pq_index = q.pq_index
            /\ naive = <<>>
            /\ size = 0
            /\ inserted_keys = {}
            /\ old = q
            /\ last = NoCall
            /\ pc = "rule"
            /\ twin = NoTwin
            /\ trace = <<>>
            /\ loop_index = 0
            /\ key_order = <<>>
            /\ threads = calls

\* thread t is inside its call
Open(t) == threads[t].at \notin {"call", "done"}

\* the frame of a call that ended: its locals are gone
Ended(f, outcome) ==
    [Frame(f.op, f.key, f.priority) EXCEPT !.at = "done", !.outcome = outcome]

\* list[i] is an IndexError outside the list
InRange(list, i) == 0 <= i /\ i < Len(list)

\* one step of thread t: what it leaves in pq and pq_index, and its frame
ThreadStep(t, list, index, f) ==
    /\ pq' = list
    /\ pq_index' = index
    /\ threads' = [threads EXCEPT ![t] = f]
    /\ trace' = IF threads[t].at = "call" /\ \E u \in Threads \ {t} : Open(u)
                 THEN Append(trace, "overlap")
                 ELSE trace
    /\ UNCHANGED <<variant, naive, size, inserted_keys, old, last, pc, twin, loop_index,
                   key_order>>

\* if key in self.pq_index: raise ValueError(...)
InsertCheck(t) ==
    LET f == threads[t]
    IN  /\ f.op = "insert" /\ f.at = "call"
        /\ ThreadStep(t, pq, pq_index,
                      IF f.key \in DOMAIN pq_index
                      THEN Ended(f, "ValueError")
                      ELSE [f EXCEPT !.at = "append"])

\* item = Comparator(key, priority); self.pq.append(item)
InsertAppend(t) ==
    LET f == threads[t]
    IN  /\ f.at = "append"
        /\ ThreadStep(t, Append(pq, Comparator(f.key, f.priority)), pq_index,
                      [f EXCEPT !.at = "index_len"])

\* self.pq_index[key] = len(self.pq) - 1: the right-hand side
InsertIndexLen(t) ==
    LET f == threads[t]
    IN  /\ f.at = "index_len"
        /\ ThreadStep(t, pq, pq_index,
                      [f EXCEPT !.at = "index_store", !.index = Len(pq) - 1])

\* self.pq_index[key] = len(self.pq) - 1: the store
InsertIndexStore(t) ==
    LET f == threads[t]
    IN  /\ f.at = "index_store"
        /\ ThreadStep(t, pq, DictSet(pq_index, f.key, f.index),
                      [f EXCEPT !.at = "sift_len", !.index = 0])

\* self._sift_up(len(self.pq) - 1): the argument
InsertSiftLen(t) ==
    LET f == threads[t]
    IN  /\ f.at = "sift_len"
        /\ ThreadStep(t, pq, pq_index,
                      [f EXCEPT !.at = "sift_test", !.fn = "_sift_up",
                                !.index = Len(pq) - 1])

\* while index > 0: parent_index = (index - 1) // 2;
\* if self.pq[index] < self.pq[parent_index]: ... else: break
SiftTest(t) ==
    LET f == threads[t]
    IN  /\ f.at = "sift_test"
        /\ ThreadStep(t, pq, pq_index,
                      IF f.index <= 0
                      THEN Ended(f, "ok")
                      ELSE IF ~InRange(pq, f.index)
                      THEN Ended(f, "IndexError")
                      ELSE IF Lt(At(pq, f.index), At(pq, parent_index(f.index)))
                      THEN [f EXCEPT !.at = "swap_read", !.other = parent_index(f.index)]
                      ELSE Ended(f, "ok"))

\* if not self.pq: raise IndexError(...)
PopCheck(t) ==
    LET f == threads[t]
    IN  /\ f.op = "pop" /\ f.at = "call"
        /\ ThreadStep(t, pq, pq_index,
                      IF Len(pq) = 0
                      THEN Ended(f, "IndexError")
                      ELSE [f EXCEPT !.at = "min_read"])

\* min_item = self.pq[0]
PopMinRead(t) ==
    LET f == threads[t]
    IN  /\ f.at = "min_read"
        /\ ThreadStep(t, pq, pq_index,
                      IF ~InRange(pq, 0)
                      THEN Ended(f, "IndexError")
                      ELSE [f EXCEPT !.at = "list_pop", !.min_item = At(pq, 0)])

\* last_item = self.pq.pop()
PopListPop(t) ==
    LET f == threads[t]
    IN  /\ f.at = "list_pop"
        /\ IF Len(pq) = 0
           THEN ThreadStep(t, pq, pq_index, Ended(f, "IndexError"))
           ELSE ThreadStep(t, ButLast(pq), pq_index,
                           [f EXCEPT !.at = "if_pq", !.last_item = pq[Len(pq)]])

\* if self.pq:
PopIfPq(t) ==
    LET f == threads[t]
    IN  /\ f.at = "if_pq"
        /\ ThreadStep(t, pq, pq_index,
                      [f EXCEPT !.at = IF Len(pq) > 0 THEN "root_store" ELSE "del"])

\* self.pq[0] = last_item
PopRootStore(t) ==
    LET f == threads[t]
    IN  /\ f.at = "root_store"
        /\ IF ~InRange(pq, 0)
           THEN ThreadStep(t, pq, pq_index, Ended(f, "IndexError"))
           ELSE ThreadStep(t, Put(pq, 0, f.last_item), pq_index,
                           [f EXCEPT !.at = "root_index"])

\* self.pq_index[last_item.key] = 0; self._sink_down(0)
PopRootIndex(t) ==
    LET f == threads[t]
    IN  /\ f.at = "root_index"
        /\ ThreadStep(t, pq, DictSet(pq_index, f.last_item.key, 0),
                      [f EXCEPT !.at = "sink_left", !.fn = "_sink_down", !.index = 0,
                                !.last_item = NoItem])

\* smallest = index
\* if left_idx < len(self.pq) and self.pq[left_idx] < self.pq[smallest]:
\*     smallest = left_idx
SinkLeft(t) ==
    LET f == threads[t]
        left_idx == 2 * f.index + 1
    IN  /\ f.at = "sink_left"
        /\ ThreadStep(t, pq, pq_index,
                      [f EXCEPT !.at = "sink_right",
                                !.other = IF /\ left_idx < Len(pq)
                                             /\ Lt(At(pq, left_idx), At(pq, f.index))
                                          THEN left_idx
                                          ELSE f.index])

\* if right_idx < len(self.pq) and self.pq[right_idx] < self.pq[smallest]:
\*     smallest = right_idx
\* if smallest != index: ... else: break
SinkRight(t) ==
    LET f == threads[t]
        right_idx == 2 * f.index + 2
        smallest_idx == IF /\ right_idx < Len(pq)
                           /\ Lt(At(pq, right_idx), At(pq, f.other))
                        THEN right_idx
                        ELSE f.other
    IN  /\ f.at = "sink_right"
        /\ ThreadStep(t, pq, pq_index,
                      IF smallest_idx # f.index
                      THEN [f EXCEPT !.at = "swap_read", !.other = smallest_idx]
                      ELSE [f EXCEPT !.at = "del", !.fn = "none", !.index = 0,
                                     !.other = 0])

\* self.pq[index], self.pq[other] = self.pq[other], self.pq[index], other
\* being parent_index or smallest: the right-hand side
SwapRead(t) ==
    LET f == threads[t]
    IN  /\ f.at = "swap_read"
        /\ ThreadStep(t, pq, pq_index,
                      IF ~InRange(pq, f.other) \/ ~InRange(pq, f.index)
                      THEN Ended(f, "IndexError")
                      ELSE [f EXCEPT !.at = "swap_store_index",
                                     !.first = At(pq, f.other),
                                     !.second = At(pq, f.index)])

\* the store to self.pq[index]
SwapStoreIndex(t) ==
    LET f == threads[t]
    IN  /\ f.at = "swap_store_index"
        /\ IF ~InRange(pq, f.index)
           THEN ThreadStep(t, pq, pq_index, Ended(f, "IndexError"))
           ELSE ThreadStep(t, Put(pq, f.index, f.first), pq_index,
                           [f EXCEPT !.at = "swap_store_other", !.first = NoItem])

\* the store to self.pq[other]
SwapStoreOther(t) ==
    LET f == threads[t]
    IN  /\ f.at = "swap_store_other"
        /\ IF ~InRange(pq, f.other)
           THEN ThreadStep(t, pq, pq_index, Ended(f, "IndexError"))
           ELSE ThreadStep(t, Put(pq, f.other, f.second), pq_index,
                           [f EXCEPT !.at = "key_index", !.second = NoItem])

\* self.pq_index[self.pq[index].key] = index
KeyIndex(t) ==
    LET f == threads[t]
    IN  /\ f.at = "key_index"
        /\ IF ~InRange(pq, f.index)
           THEN ThreadStep(t, pq, pq_index, Ended(f, "IndexError"))
           ELSE ThreadStep(t, pq, DictSet(pq_index, At(pq, f.index).key, f.index),
                           [f EXCEPT !.at = "key_other"])

\* the second pq_index assignment of a swap left out
KeyOther_no_store(t) ==
    LET f == threads[t]
    IN  /\ f.at = "key_other"
        /\ ThreadStep(t, pq, pq_index,
                      [f EXCEPT !.at = IF f.fn = "_sift_up"
                                       THEN "sift_test"
                                       ELSE "sink_left",
                                !.index = f.other, !.other = 0])

\* self.pq_index[self.pq[other].key] = other; index = other
KeyOther(t) ==
    LET f == threads[t]
    IN  /\ f.at = "key_other"
        /\ IF ~InRange(pq, f.other)
           THEN ThreadStep(t, pq, pq_index, Ended(f, "IndexError"))
           ELSE ThreadStep(t, pq, DictSet(pq_index, At(pq, f.other).key, f.other),
                           [f EXCEPT !.at = IF f.fn = "_sift_up"
                                            THEN "sift_test"
                                            ELSE "sink_left",
                                     !.index = f.other, !.other = 0])

\* del self.pq_index[min_item.key]; return min_item.key, min_item.priority
PopDel(t) ==
    LET f == threads[t]
    IN  /\ f.at = "del"
        /\ IF f.min_item.key \notin DOMAIN pq_index
           THEN ThreadStep(t, pq, pq_index, Ended(f, "KeyError"))
           ELSE ThreadStep(t, pq, DictDel(pq_index, f.min_item.key), Ended(f, "ok"))

ThreadsNext ==
    \E t \in Threads :
        \/ InsertCheck(t)
        \/ InsertAppend(t)
        \/ InsertIndexLen(t)
        \/ InsertIndexStore(t)
        \/ InsertSiftLen(t)
        \/ SiftTest(t)
        \/ PopCheck(t)
        \/ PopMinRead(t)
        \/ PopListPop(t)
        \/ PopIfPq(t)
        \/ PopRootStore(t)
        \/ PopRootIndex(t)
        \/ SinkLeft(t)
        \/ SinkRight(t)
        \/ SwapRead(t)
        \/ SwapStoreIndex(t)
        \/ SwapStoreOther(t)
        \/ KeyIndex(t)
        \/ KeyOther(t)
        \/ PopDel(t)

SpecThreads == ThreadsInit /\ [][ThreadsNext]_vars

\* both calls have ended
BothDone == \A t \in Threads : threads[t].at = "done"

\* one call ended before the other began: no call began while one was open
Serialized == trace = <<>>

\* a call as one whole, by the operators that model it without threads
WholeCall(q, f) == IF f.op = "insert" THEN insert(q, f.key, f.priority) ELSE pop(q)

\* serialized steps leave what the two whole calls, made one after the other
\* in one of the two orders, leave
SerialAgrees ==
    (BothDone /\ Serialized)
    => \E a, b \in Threads :
           LET ra == WholeCall(old, threads[a])
               rb == WholeCall(ra.q, threads[b])
           IN  /\ a # b
               /\ Self = rb.q
               /\ threads[a].outcome = ra.outcome
               /\ threads[b].outcome = rb.outcome

\* C31: unsafe without exclusion, safe when serialized.  Two threads each
\* make one mutating call (insert or pop) on one queue.  When one call ends
\* before the other begins, the heap invariant and the position-index
\* invariant hold once both have ended, however they ended.  When their reads
\* and writes interleave, a state in which both have returned and one of the
\* two invariants is violated is reachable (C31_Witness).
C31_SerializedSafe ==
    (BothDone /\ Serialized) => (C1_HeapInvariant /\ C2_IndexInvariant)

\* two inserts of two keys interleaved, both returned without an exception,
\* and the position-index invariant is violated
C31_Witness ==
    /\ BothDone
    /\ ~Serialized
    /\ \A t \in Threads : threads[t].op = "insert" /\ threads[t].outcome = "ok"
    /\ threads[1].key # threads[2].key
    /\ ~C2_IndexInvariant

\* reachable as well: an insert and a pop that both returned and left the
\* position-index invariant violated, and two calls that both returned and
\* left the heap invariant violated
C31_InsertPopBroken ==
    /\ BothDone
    /\ \E t, u \in Threads : threads[t].op = "insert" /\ threads[u].op = "pop"
    /\ \A t \in Threads : threads[t].outcome = "ok"
    /\ ~C2_IndexInvariant

C31_HeapBroken ==
    /\ BothDone
    /\ \A t \in Threads : threads[t].outcome = "ok"
    /\ ~C1_HeapInvariant

====
